---- MODULE Spec2Model ----
(***************************************************************************)
(* Verification model of docker-postgres-backuper: the retention pass in   *)
(* its three source variants (storage.Cleanup over a Provider,             *)
(* Local.Cleanup, S3.Cleanup), the retry loop of S3.execute, the          *)
(* paginated s3Provider.List, Save and Fetch of the providers with the     *)
(* release function, and the requests of the two object-store clients      *)
(* (s3client.Client and storage.S3): endpoint, addressing, key, signature  *)
(* and the handling of the response.                                       *)
(*                                                                         *)
(* Strings are sequences of tokens.  A token is a run of characters that   *)
(* holds none of the separators the code looks for; the separators "_"     *)
(* and "/" are tokens of their own, so strings.Split, strings.Trim,        *)
(* strings.TrimPrefix and path.Base act on the token sequence exactly as   *)
(* the Go functions act on the characters.                                 *)
(*                                                                         *)
(* Instants are whole days (time.Time); ZeroTime is Go's zero instant      *)
(* time.Time{}, for which IsZero() holds.                                  *)
(***************************************************************************)
EXTENDS Integers, Sequences, FiniteSets, TLC

VARIABLES
    variant,    \* which retention code runs against the store
    store,      \* the artifacts of the backend, [Key, Mod], in byte order of the keys
    clock,      \* time.Now(), in days
    pass,       \* what the last Cleanup call saw and did
    list,       \* the last s3Provider.List call and its result
    exec,       \* the S3.execute call in progress: its loop counter and its history
    disk,       \* the local files by path: absent, or their bytes
    bucket,     \* the object under the key of the artifact: absent, or its bytes
    writer,     \* the Save calls: their position and result
    reader,     \* the Fetch call: its result and the calls of its release function
    client,     \* the object-store client: its configuration and what construction made of it
    request,    \* the last request the client built and signed
    reply,      \* the last response and what the operation returned for it
    job         \* the command of the controller that runs, and its Dump run

\* The state of the Save/Fetch machine, which the other machines leave alone.
transfer == <<disk, bucket, writer, reader>>

\* The state of the request machine, which the other machines leave alone.
wire == <<client, request, reply>>

vars == <<variant, store, clock, pass, list, exec, transfer, wire, job>>

----------------------------------------------------------------------------
(* Bounds of the model *)

MaxFiles == 2
ClockStart == 400
ClockSpan == 2

----------------------------------------------------------------------------
(* String helpers *)

Range(s) == {s[i] : i \in 1..Len(s)}

HasPrefix(s, p) == Len(p) <= Len(s) /\ SubSeq(s, 1, Len(p)) = p

HasSuffix(s, p) == Len(p) <= Len(s) /\ SubSeq(s, Len(s) - Len(p) + 1, Len(s)) = p

TrimPrefix(s, p) == IF HasPrefix(s, p) THEN SubSeq(s, Len(p) + 1, Len(s)) ELSE s

RECURSIVE TrimLeft(_, _)
TrimLeft(s, c) == IF s # <<>> /\ Head(s) = c THEN TrimLeft(Tail(s), c) ELSE s

RECURSIVE TrimRight(_, _)
TrimRight(s, c) ==
    IF s # <<>> /\ s[Len(s)] = c THEN TrimRight(SubSeq(s, 1, Len(s) - 1), c) ELSE s

Trim(s, c) == TrimRight(TrimLeft(s, c), c)

RECURSIVE Split(_, _)
Split(s, sep) ==
    IF \A i \in 1..Len(s) : s[i] # sep
    THEN <<s>>
    ELSE LET i == CHOOSE k \in 1..Len(s) : s[k] = sep /\ \A j \in 1..(k - 1) : s[j] # sep
         IN  <<SubSeq(s, 1, i - 1)>> \o Split(SubSeq(s, i + 1, Len(s)), sep)

\* path.Base: the last element of a slash-separated path, trailing slashes removed.
Base(s) ==
    IF s = <<>> THEN <<".">>
    ELSE LET t == TrimRight(s, "/") IN
         IF t = <<>> THEN <<"/">>
         ELSE LET parts == Split(t, "/") IN parts[Len(parts)]

----------------------------------------------------------------------------
(* Time *)

ZeroTime == 0

IsZero(t) == t = ZeroTime

\* A comparison that also holds for equal instants.
Before_orEqual(t, u) == t <= u

Before(t, u) == t < u

----------------------------------------------------------------------------
(* Artifact names and keys *)

BackupName(backupType) == <<"file", "_", backupType, "_", "t", ".dump">>

\* The candidate names of one database directory, in byte order: the order in
\* which os.ReadDir and an S3 listing return them.
NameOrder ==
    << <<"file", ".dump">>,
       BackupName("adhoc"),
       BackupName("daily"),
       BackupName("manual"),
       BackupName("monthly"),
       BackupName("weekly"),
       <<"x", "_", "daily">>,
       <<"x", "_", "daily", "_", "y">> >>

Database == <<"users">>

\* A second database, whose name has the first as a proper prefix.
OtherDatabase == <<"users", "2">>

\* s3Provider.prefix after NewS3Provider's normalisation; S3.prefix is the same
\* string without the trailing slash.
cfgPrefix == <<>>

databasePrefix(database) == cfgPrefix \o Trim(database, "/") \o <<"/">>

objectKey(database, filename) == databasePrefix(database) \o filename

\* filepath.Join(basePath, database, filename), relative to basePath
localPath(database, filename) == database \o <<"/">> \o filename

\* path.Join of the non-empty parts (S3.objectKey)
S3_objectKey(database, filename) ==
    LET p == IF cfgPrefix = <<>> THEN <<>> ELSE TrimRight(cfgPrefix, "/") \o <<"/">>
    IN  IF filename = <<>> THEN p \o database ELSE p \o database \o <<"/">> \o filename

\* Every candidate key, in byte order ("/" sorts before "2").
KeyOrder ==
    [i \in 1..Len(NameOrder) |-> objectKey(Database, NameOrder[i])]
    \o [i \in 1..Len(NameOrder) |-> objectKey(OtherDatabase, NameOrder[i])]

KeyIndex(key) == CHOOSE i \in 1..Len(KeyOrder) : KeyOrder[i] = key

----------------------------------------------------------------------------
(* Listing: the local directory and the object store *)

MaxPage == 2

\* os.ReadDir(basePath/database): the directory's own entries, sorted by name.
ReadDir(st, database) ==
    LET dir == database \o <<"/">>
        own == SelectSeq(st, LAMBDA o :
                   HasPrefix(o.Key, dir) /\ "/" \notin Range(TrimPrefix(o.Key, dir)))
    IN  [i \in 1..Len(own) |-> [Name |-> TrimPrefix(own[i].Key, dir), ModTime |-> own[i].Mod]]

\* localProvider.List
localProvider_List(st, database, fault) ==
    IF fault # "none"
    THEN [files |-> <<>>, err |-> fault]
    ELSE LET entries == ReadDir(st, database)
         IN  [files |-> [i \in 1..Len(entries) |->
                            [Name |-> entries[i].Name, Modified |-> entries[i].ModTime]],
              err |-> "nil"]

\* The LastModified element of a listing as the server writes it: an RFC 3339
\* instant, or text that is no timestamp (Mod = ZeroTime stands for the latter).
WireTime(mod) == IF mod = ZeroTime THEN [layout |-> "none", t |-> 0]
                 ELSE [layout |-> "rfc3339", t |-> mod]

\* One ListObjectsV2 response of the server: the keys with the prefix that sort
\* after the continuation token, at most pageSize of them.
ServerPage(st, prefix, token, pageSize) ==
    LET all  == SelectSeq(st, LAMBDA o : HasPrefix(o.Key, prefix))
        from == IF token = <<>> THEN 1
                ELSE 1 + Cardinality({i \in 1..Len(all) : KeyIndex(all[i].Key) <= KeyIndex(token)})
        to   == IF from + pageSize - 1 < Len(all) THEN from + pageSize - 1 ELSE Len(all)
        page == SubSeq(all, from, to)
    IN  [Contents |-> [i \in 1..Len(page) |->
                          [Key |-> page[i].Key, LastModified |-> WireTime(page[i].Mod)]],
         IsTruncated |-> IF to < Len(all) THEN "true" ELSE "false",
         NextContinuationToken |-> IF to < Len(all) THEN page[Len(page)].Key ELSE <<>>]

\* Client.ListObjectsV2: decode one response.
ListObjectsV2(st, prefix, continuationToken, pageSize) ==
    LET result == ServerPage(st, prefix, continuationToken, pageSize)
    IN  [Objects |-> [i \in 1..Len(result.Contents) |->
                         [Key |-> result.Contents[i].Key,
                          LastModified |->
                              IF result.Contents[i].LastModified.layout = "rfc3339"
                              THEN result.Contents[i].LastModified.t
                              ELSE ZeroTime]],
         IsTruncated |-> result.IsTruncated = "true",
         NextContinuationToken |-> result.NextContinuationToken]

\* One turn of the loop of s3Provider.List: the files of a page appended.
AppendPage(files, output) ==
    files \o [i \in 1..Len(output.Objects) |->
                 [Name |-> Base(output.Objects[i].Key),
                  Modified |-> output.Objects[i].LastModified]]

\* An exit test that holds after the first page.
LastPage_firstPage(output) == TRUE

\* The loop's exit test.
LastPage(output) == ~output.IsTruncated \/ output.NextContinuationToken = <<>>

RECURSIVE ListFrom(_, _, _, _, _)
ListFrom(st, prefix, token, pageSize, files) ==
    LET output == ListObjectsV2(st, prefix, token, pageSize)
        more   == AppendPage(files, output)
    IN  IF LastPage(output) THEN more
        ELSE ListFrom(st, prefix, output.NextContinuationToken, pageSize, more)

\* s3Provider.List
s3Provider_List(st, database, pageSize, fault) ==
    IF fault # "none"
    THEN [files |-> <<>>, err |-> fault]
    ELSE [files |-> ListFrom(st, databasePrefix(database), <<>>, pageSize, <<>>),
          err |-> "nil"]

----------------------------------------------------------------------------
(* Retention: storage.Cleanup over a Provider *)

Variants == {"localProvider", "s3Provider", "Local", "S3"}

\* now.Add(-7 * 24 * time.Hour) and its siblings
dailyRetention(now) == now - 7
weeklyRetention(now) == now - 30
monthlyRetention(now) == now - 365
manualRetention(now) == now - 365

\* The switch on backupType: the cutoff, or "continue" for the default branch.
cutoffOf(backupType, now) ==
    CASE backupType = <<"daily">>   -> [known |-> TRUE, cutoff |-> dailyRetention(now)]
      [] backupType = <<"weekly">>  -> [known |-> TRUE, cutoff |-> weeklyRetention(now)]
      [] backupType = <<"monthly">> -> [known |-> TRUE, cutoff |-> monthlyRetention(now)]
      [] backupType = <<"manual">>  -> [known |-> TRUE, cutoff |-> manualRetention(now)]
      [] OTHER                      -> [known |-> FALSE, cutoff |-> ZeroTime]

\* The loop body without the test of the zero instant.
CleanupDeletes_anyInstant(file, now) ==
    LET parts == Split(file.Name, "_") IN
    IF Len(parts) < 2 THEN FALSE
    ELSE LET c == cutoffOf(parts[2], now) IN
         IF ~c.known THEN FALSE
         ELSE Before(file.Modified, c.cutoff)

\* The body of the loop over files: whether p.Delete is called for the file.
CleanupDeletes(file, now) ==
    LET parts == Split(file.Name, "_") IN
    IF Len(parts) < 2 THEN FALSE
    ELSE LET c == cutoffOf(parts[2], now) IN
         IF ~c.known THEN FALSE
         ELSE ~IsZero(file.Modified) /\ Before(file.Modified, c.cutoff)

----------------------------------------------------------------------------
(* Retention: Local.Cleanup and S3.Cleanup *)

parseBackupType(filename) ==
    LET parts == Split(filename, "_") IN
    IF Len(parts) < 3 THEN [backupType |-> <<>>, ok |-> FALSE]
    ELSE [backupType |-> parts[2], ok |-> TRUE]

\* A rule that treats every other class like monthly.
shouldRemove_otherAsMonthly(backupType, modifiedAt, now) ==
    CASE backupType = <<"daily">>   -> Before(modifiedAt, now - 7)
      [] backupType = <<"weekly">>  -> Before(modifiedAt, now - 30)
      [] OTHER                      -> Before(modifiedAt, now - 365)

shouldRemove(backupType, modifiedAt, now) ==
    CASE backupType = <<"daily">>   -> Before(modifiedAt, now - 7)
      [] backupType = <<"weekly">>  -> Before(modifiedAt, now - 30)
      [] backupType = <<"monthly">> -> Before(modifiedAt, now - 365)
      [] OTHER                      -> FALSE

\* The body of the loop of Local.Cleanup: whether os.Remove is called.
Local_CleanupDeletes(entry, now) ==
    LET parsed == parseBackupType(entry.Name) IN
    parsed.ok /\ shouldRemove(parsed.backupType, entry.ModTime, now)

\* parseS3Time: the instant of a LastModified text, or an error.
parseS3Time(value) ==
    IF value.layout = "rfc3339" THEN [t |-> value.t, ok |-> TRUE]
    ELSE [t |-> ZeroTime, ok |-> FALSE]

\* The prefix S3.Cleanup lists and the one it strips from each key.
S3_listPrefix(database) == S3_objectKey(database, <<>>)

S3_trimPrefix(database) ==
    LET prefix == S3_listPrefix(database) IN
    IF prefix # <<>> /\ ~HasSuffix(prefix, <<"/">>) THEN prefix \o <<"/">> ELSE prefix

\* The body of the loop of S3.Cleanup: whether deleteObject is called.
S3_CleanupDeletes(object, database, now) ==
    LET trimPrefix == S3_trimPrefix(database)
        name   == IF trimPrefix # <<>> THEN TrimPrefix(object.Key, trimPrefix) ELSE object.Key
        parsed == parseBackupType(name)
        time   == parseS3Time(object.LastModified)
    IN  /\ name # <<>>
        /\ parsed.ok
        /\ time.ok
        /\ shouldRemove(parsed.backupType, time.t, now)

\* The objects S3.Cleanup receives over all its list requests.
S3_listed(st, database) ==
    LET all == SelectSeq(st, LAMBDA o : HasPrefix(o.Key, S3_listPrefix(database)))
    IN  [i \in 1..Len(all) |-> [Key |-> all[i].Key, LastModified |-> WireTime(all[i].Mod)]]

----------------------------------------------------------------------------
(* Files and objects as bytes *)

Absent == [exists |-> FALSE, data |-> <<>>]

File(data) == [exists |-> TRUE, data |-> data]

\* The paths of the local files: the dump of each Save call (os.CreateTemp in
\* Dump), the artifact's final name, and the temporary file of Fetch.
Paths == {"source1", "source2", "dest", "temp"}

Writers == {1, 2}

sourcePath(w) == IF w = 1 THEN "source1" ELSE "source2"

\* file.WriteAt the offset of the writer's own descriptor: bytes before the
\* offset stay, a gap is a hole of zero bytes.
WriteAt(data, off, b) ==
    [i \in 1..(IF off + 1 > Len(data) THEN off + 1 ELSE Len(data)) |->
        IF i = off + 1 THEN b
        ELSE IF i <= Len(data) THEN data[i] ELSE "00"]

NoWriter == [pc |-> "idle", content |-> <<>>, off |-> 0, err |-> "nil"]

NoReader ==
    [pc |-> "idle", path |-> "", release |-> "nil", err |-> "nil", calls |-> <<>>]

NoTransfer ==
    /\ disk = [files |-> [p \in Paths |-> Absent], crossDevice |-> FALSE]
    /\ bucket = Absent
    /\ writer = [w \in Writers |-> NoWriter]
    /\ reader = NoReader

\* No client was constructed, no request built, no response handled.
NoConfig ==
    [Endpoint |-> <<>>, Region |-> "", Bucket |-> "", Prefix |-> <<>>,
     ForcePathStyle |-> FALSE, UseTLS |-> FALSE]

NoClient ==
    [impl |-> "none", cfg |-> NoConfig, err |-> "nil",
     Scheme |-> <<>>, Host |-> <<>>, Path |-> <<>>, prefix |-> <<>>]

NoRequest ==
    [op |-> "none", method |-> "", database |-> <<>>, filename |-> <<>>,
     key |-> <<>>, query |-> <<>>, day |-> "",
     payloadHash |-> <<>>, Host |-> <<>>, Path |-> <<>>, RawPath |-> <<>>,
     RawQuery |-> <<>>, Authorization |-> <<>>]

NoReply == [status |-> 0, body |-> 0, err |-> "none", code |-> 0, excerpt |-> 0]

NoWire == client = NoClient /\ request = NoRequest /\ reply = NoReply

----------------------------------------------------------------------------
(* The retention state machine *)

\* Last-modified instants of the initial artifacts: one per class limit, so that
\* the clock crosses each cutoff, and the unknown instant of an object store.
ModTimes(v) ==
    {ClockStart + 1 - 365, ClockStart + 1 - 30, ClockStart + 1 - 7}
    \cup (IF v \in {"s3Provider", "S3"} THEN {ZeroTime} ELSE {})

NoList == [pc |-> "idle", pageSize |-> 0, files |-> <<>>, err |-> "nil"]

NoExec ==
    [pc |-> "idle", upload |-> "", method |-> "", MaxRetries |-> 0, attempts |-> 0,
     attempt |-> 0, body |-> 0, put |-> <<>>, nput |-> 0, trace |-> <<>>, sleeps |-> <<>>, lastErr |-> [kind |-> "nil"],
     resp |-> [kind |-> "nil"], err |-> [kind |-> "nil"]]

\* No command of the controller runs.
NoJob ==
    [pc |-> "idle", impl |-> "", command |-> "", storages |-> <<>>, localEnabled |-> FALSE,
     withCopying |-> FALSE, backupType |-> "", list |-> <<>>, i |-> 0, k |-> 0,
     temp |-> <<>>, now |-> 0, shared |-> <<>>, held |-> <<>>, faults |-> 0,
     dumped |-> FALSE, stored |-> {}, unsaved |-> {}, copied |-> "", cleaned |-> {},
     saved |-> {}, gone |-> {}, reported |-> "", ran |-> <<>>]

NoPass ==
    [pc |-> "idle", now |-> 0, before |-> <<>>, files |-> <<>>, evaluated |-> 0,
     submitted |-> <<>>, failed |-> {}, err |-> "nil"]

\* The artifacts of Database, at most MaxFiles of them, in byte order.
InitCleanup ==
    /\ NoTransfer
    /\ NoWire
    /\ variant \in Variants
    /\ clock = ClockStart
    /\ pass = NoPass
    /\ job = NoJob
    /\ list = NoList
    /\ exec = NoExec
    /\ \E names \in SUBSET (1..Len(NameOrder)) :
          /\ Cardinality(names) <= MaxFiles
          /\ \E mod \in [names -> ModTimes(variant)] :
                LET present == SelectSeq([i \in 1..Len(NameOrder) |-> i], LAMBDA i : i \in names)
                IN  store = [j \in 1..Len(present) |->
                                [Key |-> objectKey(Database, NameOrder[present[j]]),
                                 Mod |-> mod[present[j]]]]

\* What the pass iterates over: the result of p.List, the directory entries, or
\* the objects of the listing.
Listing(v, st, database, pageSize) ==
    CASE v = "localProvider" -> localProvider_List(st, database, "none").files
      [] v = "s3Provider"    -> s3Provider_List(st, database, pageSize, "none").files
      [] v = "Local"         -> ReadDir(st, database)
      [] v = "S3"            -> S3_listed(st, database)

\* Whether the loop body calls a delete for the item, and for which key.
Deletes(v, item, database, now) ==
    CASE v \in {"localProvider", "s3Provider"} -> CleanupDeletes(item, now)
      [] v = "Local" -> Local_CleanupDeletes(item, now)
      [] v = "S3"    -> S3_CleanupDeletes(item, database, now)

DeleteKey(v, item, database) ==
    CASE v = "localProvider" -> localPath(database, item.Name)
      [] v = "s3Provider"    -> objectKey(database, item.Name)
      [] v = "Local"         -> localPath(database, item.Name)
      [] v = "S3"            -> item.Key

\* storage.Cleanup drops the result of p.Delete; Local.Cleanup and S3.Cleanup
\* return it, which ends the pass.
ReturnsDeleteError(v) == v \in {"Local", "S3"}

\* Cleanup is called: the listing is taken.  A failing first list request (or
\* ReadDir, or a stat inside localProvider.List) ends the call with the error.
StartCleanup ==
    /\ pass.pc # "run"
    /\ \E listErr \in BOOLEAN, pageSize \in 1..(IF variant = "s3Provider" THEN MaxPage ELSE 1) :
         LET files == Listing(variant, store, Database, pageSize)
             fresh == [NoPass EXCEPT !.now = clock, !.before = store]
         IN  pass' = IF listErr THEN [fresh EXCEPT !.pc = "done", !.err = "list"]
                     ELSE IF files = <<>> THEN [fresh EXCEPT !.pc = "done"]
                     ELSE [fresh EXCEPT !.pc = "run", !.files = files]
    /\ UNCHANGED <<job, wire, variant, store, clock, list, exec, transfer>>

\* One turn of the loop.  A delete that succeeds removes the artifact; one that
\* fails leaves it.
StepCleanup ==
    /\ pass.pc = "run"
    /\ LET i    == pass.evaluated + 1
           item == pass.files[i]
           last == i = Len(pass.files)
           key  == DeleteKey(variant, item, Database)
       IN  IF Deletes(variant, item, Database, pass.now)
           THEN \E ok \in BOOLEAN :
                  /\ store' = IF ok THEN SelectSeq(store, LAMBDA o : o.Key # key) ELSE store
                  /\ pass' = [pass EXCEPT
                        !.evaluated = i,
                        !.submitted = Append(@, key),
                        !.failed = IF ok THEN @ ELSE @ \cup {key},
                        !.err = IF ~ok /\ ReturnsDeleteError(variant) THEN "delete" ELSE @,
                        !.pc = IF last \/ (~ok /\ ReturnsDeleteError(variant))
                               THEN "done" ELSE "run"]
           ELSE /\ store' = store
                /\ pass' = [pass EXCEPT !.evaluated = i,
                                        !.pc = IF last THEN "done" ELSE "run"]
    /\ UNCHANGED <<job, wire, variant, clock, list, exec, transfer>>

\* A request inside the loop fails and ends the pass: the stat of the next entry
\* (Local.Cleanup), the request for the next page (S3.Cleanup).
FaultCleanup ==
    /\ pass.pc = "run"
    /\ \/ variant = "Local"
       \/ variant = "S3" /\ pass.evaluated >= 1
    /\ pass' = [pass EXCEPT !.pc = "done",
                            !.err = IF variant = "Local" THEN "info" ELSE "list"]
    /\ UNCHANGED <<job, wire, variant, store, clock, list, exec, transfer>>

Tick ==
    /\ pass.pc # "run"
    /\ clock < ClockStart + ClockSpan
    /\ clock' = clock + 1
    /\ UNCHANGED <<job, wire, variant, store, pass, list, exec, transfer>>

NextCleanup == StartCleanup \/ StepCleanup \/ FaultCleanup \/ Tick

SpecCleanup == InitCleanup /\ [][NextCleanup]_vars

\* The store holds artifacts of two databases, the name of the first being a
\* proper prefix of the name of the second; Cleanup runs for the first.
InitCleanupShared ==
    /\ NoTransfer
    /\ NoWire
    /\ variant \in Variants
    /\ clock = ClockStart
    /\ pass = NoPass
    /\ job = NoJob
    /\ list = NoList
    /\ exec = NoExec
    /\ \E own \in SUBSET {BackupName("daily")}, other \in {BackupName("daily"), BackupName("weekly")} :
       \E ownMod, otherMod \in ModTimes(variant) :
          store = [i \in 1..Cardinality(own) |->
                      [Key |-> objectKey(Database, BackupName("daily")), Mod |-> ownMod]]
                  \o << [Key |-> objectKey(OtherDatabase, other), Mod |-> otherMod] >>

SpecCleanupShared == InitCleanupShared /\ [][NextCleanup]_vars

----------------------------------------------------------------------------
(* Listing an object store with s3Provider.List *)

MaxObjects == 3

\* The bucket holds at most MaxObjects objects, of Database and of a database
\* whose name starts like it; the server hands out pages of the size it likes.
InitList ==
    /\ NoTransfer
    /\ NoWire
    /\ variant = "s3Provider"
    /\ clock = ClockStart
    /\ pass = NoPass
    /\ job = NoJob
    /\ list = NoList
    /\ exec = NoExec
    /\ \E keys \in SUBSET (1..Len(KeyOrder)) :
          /\ Cardinality(keys) <= MaxObjects
          /\ LET present == SelectSeq([i \in 1..Len(KeyOrder) |-> i], LAMBDA i : i \in keys)
             IN  store = [j \in 1..Len(present) |->
                             [Key |-> KeyOrder[present[j]], Mod |-> ClockStart]]

\* p.List(Database): every page is requested until the loop's exit test holds;
\* a failing request ends the call with its error.
ListCall ==
    /\ list.pc = "idle"
    /\ \E pageSize \in 1..MaxPage, fault \in {"none", "list"} :
         LET result == s3Provider_List(store, Database, pageSize, fault)
         IN  list' = [pc |-> "done", pageSize |-> pageSize,
                      files |-> result.files, err |-> result.err]
    /\ UNCHANGED <<job, wire, variant, store, clock, pass, exec, transfer>>

\* The caller drops the result; the next call starts afresh.
ListReturn ==
    /\ list.pc = "done"
    /\ list' = NoList
    /\ UNCHANGED <<job, wire, variant, store, clock, pass, exec, transfer>>

NextList == ListCall \/ ListReturn

SpecList == InitList /\ [][NextList]_vars

----------------------------------------------------------------------------
(* The retry loop of S3.execute *)

MaxRetriesBound == 2

StatusTooManyRequests == 429
StatusRequestTimeout == 408
StatusInternalServerError == 500
StatusNotImplemented == 501
StatusHTTPVersionNotSupported == 505

\* The status codes a response may carry.  HTTP defines the classes 1xx to 5xx
\* (100..599); these are the codes the code tells apart and neighbours of each.
StatusCodes == {200, 204, 301, 400, 403, 404, 408, 429, 499, 500, 501, 502, 503, 504, 505, 599}

\* What httpClient.Do can hand back for one request: a response with a status,
\* a net.Error with its Timeout() and Temporary() answers, or another error.
Outcomes ==
    [kind : {"response"}, status : StatusCodes]
    \cup [kind : {"net"}, timeout : BOOLEAN, temporary : BOOLEAN]
    \cup {[kind |-> "other"]}

\* requestError.retryable
retryable_also501(statusCode) ==
    \/ statusCode = StatusTooManyRequests
    \/ statusCode = StatusRequestTimeout
    \/ statusCode >= StatusInternalServerError /\ statusCode # StatusHTTPVersionNotSupported

retryable(statusCode) ==
    \/ statusCode = StatusTooManyRequests
    \/ statusCode = StatusRequestTimeout
    \/ /\ statusCode >= StatusInternalServerError
       /\ statusCode # StatusNotImplemented
       /\ statusCode # StatusHTTPVersionNotSupported

\* S3.do: a 2xx response is the result; any other response is a requestError;
\* an error of the client is passed on.
do(outcome) ==
    IF outcome.kind = "response"
    THEN IF outcome.status >= 200 /\ outcome.status < 300
         THEN [resp |-> [kind |-> "response", status |-> outcome.status], err |-> [kind |-> "nil"]]
         ELSE [resp |-> [kind |-> "nil"],
               err |-> [kind |-> "requestError", statusCode |-> outcome.status]]
    ELSE [resp |-> [kind |-> "nil"], err |-> outcome]

isRetryable(err) ==
    CASE err.kind = "nil" -> FALSE
      [] err.kind = "requestError" -> retryable(err.statusCode)
      [] err.kind = "net" -> err.timeout \/ err.temporary
      [] OTHER -> FALSE

\* attempts := s.cfg.MaxRetries + 1, at least 1
attempts_unclamped(MaxRetries) == MaxRetries + 1

attempts(MaxRetries) == IF MaxRetries + 1 < 1 THEN 1 ELSE MaxRetries + 1

\* lastErr = err
lastErr_keepFirst(lastErr, err) == IF lastErr.kind = "nil" THEN err ELSE lastErr

lastErr_assign(lastErr, err) == err

\* time.Duration(attempt) * 500 * time.Millisecond, in milliseconds
baseDelay == 500

\* A wait that does not grow with the attempt.
backoff_constant(attempt) == baseDelay

backoff(attempt) == attempt * baseDelay

\* Only Store passes a provider of the request body.
HasProvider(method) == method = "PUT"

\* The callers of the loop: S3.Store, and PutObjectWithContext of the vendored
\* client, which has the same loop.
Uploads == {"Store", "PutObjectWithContext"}

\* The bytes of the file a PUT uploads.
PutContent == <<"d1", "d2">>

\* A digest is the record of what was digested (see the signatures below).
sha256Sum(data) == [sha256 |-> data]

EncodeToString(digest) == [hex |-> digest]

\* hashReader(body) is applied to what the reader yields up to its end.
hashReader(body) == EncodeToString(sha256Sum(body))

\* What a reader at offset pos of the file yields up to the end of the file.
ReadAll(content, pos) == SubSeq(content, pos + 1, Len(content))

\* A provider that hands out the shared body where the last attempt left it.
provider_noSeek(upload, pos) ==
    [pos |-> IF upload = "Store" THEN 0 ELSE pos, length |-> Len(PutContent)]

\* The provider of the request body: Store opens the source anew and takes
\* its size from Stat; PutObjectWithContext seeks the one body of the input to
\* its start and passes the content length of the input, which the uploader
\* measured by seeking to the end.
provider(upload, pos) == [pos |-> 0, length |-> Len(PutContent)]

\* buildRequest with a body: the payload hash is taken over what the body
\* yields from its offset, then the body is sought to its start and the
\* request declares the length it was given.
buildRequest(body) ==
    [payloadHash |-> hashReader(ReadAll(PutContent, body.pos)),
     offset |-> 0,
     ContentLength |-> body.length]

\* Client.PutObject up to the request: hashAndLength seeks to the start,
\* digests to the end and seeks back; the length is the number of bytes
\* digested.
hashAndLength(pos) ==
    [payloadHash |-> hashReader(ReadAll(PutContent, 0)),
     offset |-> 0,
     ContentLength |-> Len(ReadAll(PutContent, 0))]

InitExecute ==
    /\ NoTransfer
    /\ NoWire
    /\ variant = "S3"
    /\ store = <<>>
    /\ clock = ClockStart
    /\ pass = NoPass
    /\ job = NoJob
    /\ list = NoList
    /\ exec = NoExec

\* Store, the list request of Cleanup or deleteObject calls execute; the three
\* differ in the loop only by the body, which only an upload has.
StartExecute ==
    /\ exec.pc \in {"idle", "done", "sent"}
    /\ \E method \in {"PUT", "GET", "DELETE"}, MaxRetries \in (0 - 1)..MaxRetriesBound :
       \E upload \in (IF HasProvider(method) THEN Uploads ELSE {"none"}) :
         exec' = [NoExec EXCEPT !.pc = "loop", !.upload = upload, !.method = method,
                                !.MaxRetries = MaxRetries,
                                !.attempts = attempts(MaxRetries), !.attempt = 1]
    /\ UNCHANGED <<job, wire, variant, store, clock, pass, list, transfer>>

\* One turn of the loop of execute, with the sleep that follows a retryable
\* failure; exec.sleeps holds the length of every sleep.  The errors carry the
\* turn they arose in.  With a body, exec.put holds what the latest request
\* sent: the offset the body was read from, the declared length and the
\* payload hash, and with them the offset the provider found the body at;
\* exec.nput counts these requests.  exec.body is the offset of the one body of
\* PutObjectWithContext, which the transport leaves after a part or the whole
\* of it (the file Store opened is closed again).
AttemptExecute ==
    /\ exec.pc = "loop"
    /\ IF exec.attempt > exec.attempts
       THEN exec' = [exec EXCEPT !.pc = "done", !.err = exec.lastErr]
       ELSE \E provided \in (IF HasProvider(exec.method) THEN BOOLEAN ELSE {TRUE}),
               built \in BOOLEAN, outcome \in Outcomes,
               read \in (IF HasProvider(exec.method) /\ exec.upload # "Store"
                         THEN {1, Len(PutContent)} ELSE {0}) :
              IF ~provided
              THEN exec' = [exec EXCEPT !.pc = "done",
                               !.err = [kind |-> "provider", attempt |-> exec.attempt]]
              ELSE IF ~built
              THEN exec' = [exec EXCEPT !.pc = "done",
                               !.err = [kind |-> "buildRequest", attempt |-> exec.attempt]]
              ELSE LET done  == do(outcome)
                       err   == done.err @@ [attempt |-> exec.attempt]
                       trace == Append(exec.trace, outcome)
                       last  == lastErr_assign(exec.lastErr, err)
                       req   == buildRequest(provider(exec.upload, exec.body))
                       put   == IF HasProvider(exec.method)
                                THEN <<req @@ [found |-> exec.body]>>
                                ELSE exec.put
                       nput  == IF HasProvider(exec.method)
                                THEN exec.nput + 1 ELSE exec.nput
                       body  == IF HasProvider(exec.method) /\ exec.upload # "Store"
                                THEN read ELSE exec.body
                   IN  IF done.err.kind = "nil"
                       THEN exec' = [exec EXCEPT !.pc = "done", !.trace = trace,
                                        !.put = put, !.nput = nput, !.body = body,
                                        !.resp = done.resp @@ [attempt |-> exec.attempt]]
                       ELSE IF ~isRetryable(done.err) \/ exec.attempt = exec.attempts
                       THEN exec' = [exec EXCEPT !.pc = "done", !.trace = trace,
                                        !.put = put, !.nput = nput, !.body = body,
                                        !.lastErr = last, !.err = last]
                       ELSE exec' = [exec EXCEPT !.trace = trace, !.lastErr = last,
                                        !.put = put, !.nput = nput, !.body = body,
                                        !.sleeps = Append(@, backoff(exec.attempt)),
                                        !.attempt = @ + 1]
    /\ UNCHANGED <<job, wire, variant, store, clock, pass, list, transfer>>

\* Client.PutObject: one request and no loop.  The body may be at any offset
\* when it is passed in; a failing seek or read ends the call before the
\* request.
PutObject ==
    /\ exec.pc \in {"idle", "done", "sent"}
    /\ \E pos \in 0..Len(PutContent), prepared \in BOOLEAN :
         exec' = IF ~prepared
                 THEN [NoExec EXCEPT !.pc = "sent", !.upload = "PutObject", !.method = "PUT",
                                     !.body = pos]
                 ELSE [NoExec EXCEPT !.pc = "sent", !.upload = "PutObject", !.method = "PUT",
                                     !.body = Len(PutContent),
                                     !.nput = 1,
                                     !.put = <<hashAndLength(pos) @@ [found |-> pos]>>]
    /\ UNCHANGED <<job, wire, variant, store, clock, pass, list, transfer>>

NextExecute == StartExecute \/ AttemptExecute \/ PutObject

SpecExecute == InitExecute /\ [][NextExecute]_vars

----------------------------------------------------------------------------
(* Save, Fetch and the release function *)

MaxReleases == 2

ContentA == <<"a1", "a2">>
ContentB == <<"b1", "b2">>
Previous == <<"p1", "p2">>

\* The body of an error response of the object store.
ErrorDocument == <<"<Error>">>

\* What the object store answers to one request: no answer (a transport
\* error), the answer of a server that serves the request, a redirect without
\* Location (a bucket of another region), or a refusal.
Answers == {"transport", "served", "redirect", "refused"}

\* The status of an answer; a server that serves a request answers 200, or 404
\* to the GET of an object it does not hold.
StatusOf(answer, found) ==
    CASE answer = "served" -> IF found THEN 200 ELSE 404
      [] answer = "redirect" -> 301
      [] answer = "refused" -> 403
      [] OTHER -> 0

\* PutObject, GetObject: resp.StatusCode >= 400 is the error test.
httpFailed(statusCode) == statusCode >= 400

\* The provider variants have Save and Fetch; Local.Store is the Save of the
\* Storage variant.
InitTransferOf(variants) ==
    /\ variant \in variants
    /\ store = <<>>
    /\ clock = ClockStart
    /\ pass = NoPass
    /\ job = NoJob
    /\ list = NoList
    /\ exec = NoExec
    /\ \E crossDevice \in BOOLEAN, old \in {Absent, File(Previous)} :
         /\ disk = [files |-> [p \in Paths |->
                        CASE p = "source1" -> File(ContentA)
                          [] p = "source2" -> File(ContentB)
                          [] p = "dest" -> IF variant = "s3Provider" THEN Absent ELSE old
                          [] OTHER -> Absent],
                    crossDevice |-> IF variant = "s3Provider" THEN FALSE ELSE crossDevice]
         /\ bucket = IF variant = "s3Provider" THEN old ELSE Absent
    /\ writer = [w \in Writers |-> NoWriter]
    /\ reader = NoReader
    /\ NoWire

InitTransfer == InitTransferOf({"localProvider", "s3Provider", "Local"})

\* The backends that keep the artifacts in local files.
InitLocalSave == InitTransferOf({"localProvider", "Local"})

Finish(w, err) == [writer EXCEPT ![w].pc = "done", ![w].err = err]

SetFile(path, f) == [disk EXCEPT !.files[path] = f]

\* Save(database, filename, sourcePath(w)) is called.  localProvider.Save:
\* MkdirAll, then os.Rename, which moves the file in one step unless the source
\* is on another device.  Local.Store: MkdirAll, then copyFile.
\* s3Provider.Save: os.Open and one PutObject.
SaveStart(w) ==
    /\ writer[w].pc = "idle"
    /\ reader.pc = "idle"
    /\ disk.files[sourcePath(w)].exists
    /\ LET content == disk.files[sourcePath(w)].data
           started == [writer EXCEPT ![w].content = content]
       IN  IF variant = "s3Provider"
           THEN \E opened \in BOOLEAN, hashed \in BOOLEAN, answer \in Answers :
                  LET statusCode == StatusOf(answer, TRUE) IN
                  /\ bucket' = IF opened /\ hashed /\ answer = "served"
                               THEN File(content) ELSE bucket
                  /\ writer' = [started EXCEPT ![w].pc = "done", ![w].err =
                        IF ~opened THEN "open"
                        ELSE IF ~hashed THEN "hash"
                        ELSE IF answer = "transport" THEN "transport"
                        ELSE IF httpFailed(statusCode) THEN "status"
                        ELSE "nil"]
                  /\ disk' = disk
           ELSE \E made \in BOOLEAN :
                  /\ bucket' = bucket
                  /\ IF ~made
                     THEN /\ writer' = [started EXCEPT ![w].pc = "done", ![w].err = "mkdir"]
                          /\ disk' = disk
                     ELSE IF variant = "localProvider" /\ ~disk.crossDevice
                     THEN /\ writer' = [started EXCEPT ![w].pc = "done"]
                          /\ disk' = [disk EXCEPT !.files["dest"] = File(content),
                                                  !.files[sourcePath(w)] = Absent]
                     ELSE /\ writer' = [started EXCEPT ![w].pc = "open"]
                          /\ disk' = disk
    /\ UNCHANGED <<job, wire, variant, store, clock, pass, list, exec, reader>>

\* copyFile: os.Open(src), os.Create(dst).  Create truncates the file that has
\* the final name.
CopyOpen(w) ==
    /\ writer[w].pc = "open"
    /\ \E opened \in BOOLEAN, created \in BOOLEAN :
         IF ~opened THEN writer' = Finish(w, "open") /\ disk' = disk
         ELSE IF ~created THEN writer' = Finish(w, "create") /\ disk' = disk
         ELSE /\ writer' = [writer EXCEPT ![w].pc = "copy", ![w].off = 0]
              /\ disk' = SetFile("dest", File(<<>>))
    /\ UNCHANGED <<job, wire, variant, store, clock, pass, list, exec, bucket, reader>>

\* io.Copy(out, in): one write of the loop, at the offset of this descriptor.
CopyWrite(w) ==
    /\ writer[w].pc = "copy"
    /\ writer[w].off < Len(writer[w].content)
    /\ \E written \in BOOLEAN :
         IF ~written THEN writer' = Finish(w, "copy") /\ disk' = disk
         ELSE /\ writer' = [writer EXCEPT ![w].off = @ + 1]
              /\ disk' = SetFile("dest",
                            File(WriteAt(disk.files["dest"].data, writer[w].off,
                                         writer[w].content[writer[w].off + 1])))
    /\ UNCHANGED <<job, wire, variant, store, clock, pass, list, exec, bucket, reader>>

\* A Save that removes the source before it looks at the result of the sync.
CopyFinish_removeBeforeSync(w) ==
    /\ writer[w].pc = "copy"
    /\ writer[w].off = Len(writer[w].content)
    /\ \E flushed \in BOOLEAN, removed \in BOOLEAN :
         IF variant = "Local"
         THEN writer' = Finish(w, IF flushed THEN "nil" ELSE "close") /\ disk' = disk
         ELSE IF ~removed
         THEN writer' = Finish(w, "remove") /\ disk' = disk
         ELSE /\ writer' = Finish(w, IF flushed THEN "nil" ELSE "sync")
              /\ disk' = SetFile(sourcePath(w), Absent)
    /\ UNCHANGED <<job, wire, variant, store, clock, pass, list, exec, bucket, reader>>

\* The end of copyFile and of Save: out.Sync() and os.Remove(localPath) in
\* localProvider, dst.Close() in Local.
CopyFinish(w) ==
    /\ writer[w].pc = "copy"
    /\ writer[w].off = Len(writer[w].content)
    /\ \E flushed \in BOOLEAN, removed \in BOOLEAN :
         IF ~flushed
         THEN /\ writer' = Finish(w, IF variant = "Local" THEN "close" ELSE "sync")
              /\ disk' = disk
         ELSE IF variant = "Local"
         THEN writer' = Finish(w, "nil") /\ disk' = disk
         ELSE IF ~removed
         THEN writer' = Finish(w, "remove") /\ disk' = disk
         ELSE /\ writer' = Finish(w, "nil")
              /\ disk' = SetFile(sourcePath(w), Absent)
    /\ UNCHANGED <<job, wire, variant, store, clock, pass, list, exec, bucket, reader>>

\* Fetch(database, filename).  localProvider.Fetch: os.Stat, the path itself and
\* a release that does nothing.  s3Provider.Fetch: GetObject, os.CreateTemp,
\* io.Copy, Sync, Close; after a failure the temporary file is removed and the
\* release is nil.
Fetch ==
    /\ reader.pc = "idle"
    /\ variant \in {"localProvider", "s3Provider"}
    /\ \A w \in Writers : writer[w].pc \in {"idle", "done"}
    /\ IF variant = "localProvider"
       THEN /\ reader' = IF disk.files["dest"].exists
                         THEN [NoReader EXCEPT !.pc = "fetched", !.path = "dest",
                                               !.release = "noop"]
                         ELSE [NoReader EXCEPT !.pc = "failed", !.err = "stat"]
            /\ disk' = disk
       ELSE \E answer \in Answers, step \in {"none", "createTemp", "copy", "sync", "close"} :
              LET statusCode == StatusOf(answer, bucket.exists)
                  body == IF statusCode = 200 THEN bucket.data ELSE ErrorDocument
              IN  IF answer = "transport" \/ httpFailed(statusCode)
                  THEN /\ reader' = [NoReader EXCEPT !.pc = "failed", !.err = "download"]
                       /\ disk' = disk
                  ELSE IF step # "none"
                  THEN /\ reader' = [NoReader EXCEPT !.pc = "failed", !.err = step]
                       /\ disk' = disk
                  ELSE /\ reader' = [NoReader EXCEPT !.pc = "fetched", !.path = "temp",
                                                     !.release = "remove"]
                       /\ disk' = SetFile("temp", File(body))
    /\ UNCHANGED <<job, wire, variant, store, clock, pass, list, exec, bucket, writer>>

\* The caller invokes the release function it was handed.  A nil function
\* value panics; os.Remove of a file that is gone returns an error.
Release ==
    /\ reader.pc \in {"fetched", "failed"}
    /\ Len(reader.calls) < MaxReleases
    /\ LET result ==
              CASE reader.release = "noop" -> "nil"
                [] reader.release = "remove" ->
                      IF disk.files["temp"].exists THEN "nil" ELSE "error"
                [] OTHER -> "panic"
       IN  /\ reader' = [reader EXCEPT !.calls = Append(@, result)]
           /\ disk' = IF reader.release = "remove" THEN SetFile("temp", Absent) ELSE disk
    /\ UNCHANGED <<job, wire, variant, store, clock, pass, list, exec, bucket, writer>>

NextTransfer ==
    \/ \E w \in Writers : SaveStart(w)
    \/ \E w \in Writers : CopyOpen(w)
    \/ \E w \in Writers : CopyWrite(w)
    \/ \E w \in Writers : CopyFinish(w)
    \/ Fetch
    \/ Release

SpecTransfer == InitTransfer /\ [][NextTransfer]_vars

\* Save on the local backends only.
SpecLocalSave == InitLocalSave /\ [][NextTransfer]_vars

----------------------------------------------------------------------------
(* The object-store client: endpoints *)

\* Endpoints, hosts and paths are strings as above, with "://", ".", ":" and
\* "/" as tokens of their own.

\* The place of the first tok in s, 0 if there is none (strings.Index).
Index(s, tok) ==
    IF tok \in Range(s)
    THEN CHOOSE i \in 1..Len(s) : s[i] = tok /\ \A j \in 1..(i - 1) : s[j] # tok
    ELSE 0

\* strings.ToLower; "Backups" and "S3" are the tokens with upper-case letters.
Lower(tok) ==
    CASE tok = "Backups" -> "backups"
      [] tok = "S3" -> "s3"
      [] OTHER -> tok

ToLower(s) == [i \in 1..Len(s) |-> Lower(s[i])]

\* url.Parse: scheme://host/path; a string without "//" has no host, and its
\* part before a colon of the first segment is taken as the scheme.
Parse(s) ==
    LET slash == Index(s, "/")
        colon == Index(s, ":")
    IN  IF Len(s) >= 2 /\ s[2] = "://"
        THEN LET rest == SubSeq(s, 3, Len(s))
                 cut == Index(rest, "/")
             IN  [Scheme |-> SubSeq(s, 1, 1),
                  Host |-> IF cut = 0 THEN rest ELSE SubSeq(rest, 1, cut - 1),
                  Path |-> IF cut = 0 THEN <<>> ELSE SubSeq(rest, cut, Len(rest))]
        ELSE IF colon > 0 /\ (slash = 0 \/ colon < slash)
        THEN [Scheme |-> SubSeq(s, 1, colon - 1), Host |-> <<>>, Path |-> <<>>]
        ELSE [Scheme |-> <<>>, Host |-> <<>>, Path |-> s]

schemeOf(useTLS) == IF useTLS THEN "https" ELSE "http"

\* storage.defaultEndpoint
defaultEndpoint(region, useTLS) ==
    LET host == IF region = "us-east-1"
                THEN <<"s3", ".", "amazonaws", ".", "com">>
                ELSE <<"s3", ".", region, ".", "amazonaws", ".", "com">>
    IN  <<schemeOf(useTLS), "://">> \o host

\* storage.ensureEndpointScheme
ensureEndpointScheme(endpoint, useTLS) ==
    IF endpoint = <<>> THEN endpoint
    ELSE IF Parse(endpoint).Scheme # <<>> THEN endpoint
    ELSE <<schemeOf(useTLS), "://">> \o endpoint

\* storage.normalizePrefix
normalizePrefix(prefix) == Trim(prefix, "/")

\* storage.NewS3
NewS3(cfg) ==
    LET endpoint == IF cfg.Endpoint = <<>>
                    THEN defaultEndpoint(cfg.Region, cfg.UseTLS)
                    ELSE ensureEndpointScheme(cfg.Endpoint, cfg.UseTLS)
        parsed == Parse(endpoint)
        failed(err) == [NoClient EXCEPT !.impl = "S3", !.cfg = cfg, !.err = err]
    IN  IF cfg.Bucket = "" THEN failed("s3 bucket is required")
        ELSE IF cfg.Region = "" THEN failed("s3 region is required")
        ELSE IF parsed.Host = <<>> THEN failed("s3 endpoint must include host")
        ELSE [impl |-> "S3", cfg |-> cfg, err |-> "nil",
              Scheme |-> parsed.Scheme, Host |-> parsed.Host, Path |-> parsed.Path,
              prefix |-> normalizePrefix(cfg.Prefix)]

\* s3client.New, called by NewS3Provider, which NewProvider calls once it
\* has seen a bucket.
NewS3Provider(cfg) ==
    LET parsed == Parse(cfg.Endpoint)
        failed(err) == [NoClient EXCEPT !.impl = "Client", !.cfg = cfg, !.err = err]
        normalizedPrefix == Trim(cfg.Prefix, "/")
    IN  IF cfg.Bucket = "" THEN failed("s3 storage requires bucket")
        ELSE IF cfg.Endpoint = <<>> THEN failed("endpoint is required")
        ELSE IF cfg.Region = "" THEN failed("region is required")
        ELSE [impl |-> "Client", cfg |-> cfg, err |-> "nil",
              Scheme |-> IF parsed.Scheme = <<>> THEN <<schemeOf(cfg.UseTLS)>>
                         ELSE parsed.Scheme,
              Host |-> parsed.Host,
              Path |-> TrimRight(parsed.Path, "/"),
              prefix |-> IF normalizedPrefix # <<>> THEN normalizedPrefix \o <<"/">>
                         ELSE normalizedPrefix]

\* The configurations of S3_ENDPOINT, S3_REGION, S3_BUCKET, S3_PREFIX,
\* S3_USE_TLS and S3_FORCE_PATH_STYLE that main hands to the constructor.
Endpoints ==
    { <<>>,
      <<"https", "://", "example", ".", "com">>,
      <<"http", "://", "example", ".", "com", ":", "9000">>,
      <<"https", "://", "backups", ".", "example", ".", "com">>,
      <<"https", "://", "Backups", ".", "example", ".", "com">>,
      <<"https", "://", "example", ".", "com", "/", "base", "/">>,
      <<"example", ".", "com">> }

Regions == {"us-east-1", "eu-central-1"}

Buckets == {"backups", "media"}

Prefixes == { <<>>, <<"/", "project", "/">> }

Configs ==
    [Endpoint : Endpoints, Region : Regions, Bucket : Buckets, Prefix : Prefixes,
     ForcePathStyle : BOOLEAN, UseTLS : BOOLEAN]

----------------------------------------------------------------------------
(* The object-store client: keys, URLs and requests *)

RECURSIVE JoinWith(_, _)
\* strings.Join
JoinWith(elems, sep) ==
    IF elems = <<>> THEN <<>>
    ELSE IF Len(elems) = 1 THEN elems[1]
    ELSE elems[1] \o <<sep>> \o JoinWith(Tail(elems), sep)

RECURSIVE CleanSegments(_, _, _)
\* The elements path.Clean keeps: empty and "." elements go, ".." takes the
\* element before it with it.
CleanSegments(segs, out, rooted) ==
    IF segs = <<>> THEN out
    ELSE LET h == Head(segs) IN
         IF h = <<>> \/ h = <<".">> THEN CleanSegments(Tail(segs), out, rooted)
         ELSE IF h = <<"..">>
         THEN IF out # <<>> /\ out[Len(out)] # <<"..">>
              THEN CleanSegments(Tail(segs), SubSeq(out, 1, Len(out) - 1), rooted)
              ELSE IF rooted THEN CleanSegments(Tail(segs), out, rooted)
              ELSE CleanSegments(Tail(segs), Append(out, h), rooted)
         ELSE CleanSegments(Tail(segs), Append(out, h), rooted)

\* path.Clean
Clean(p) ==
    IF p = <<>> THEN <<".">>
    ELSE LET rooted == Head(p) = "/"
             body == JoinWith(CleanSegments(Split(p, "/"), <<>>, rooted), "/")
         IN  IF rooted THEN <<"/">> \o body
             ELSE IF body = <<>> THEN <<".">> ELSE body

\* path.Join
Join(elems) ==
    LET nonEmpty == SelectSeq(elems, LAMBDA e : e # <<>>)
    IN  IF nonEmpty = <<>> THEN <<>> ELSE Clean(JoinWith(nonEmpty, "/"))

\* s3Provider.databasePrefix of a provider with the given normalized prefix
s3Provider_databasePrefix(prefix, database) == prefix \o Trim(database, "/") \o <<"/">>

\* s3Provider.objectKey
s3Provider_objectKey(prefix, database, filename) ==
    s3Provider_databasePrefix(prefix, database) \o filename

\* S3.objectKey of a backend with the given normalized prefix
S3_objectKeyOf(prefix, database, filename) ==
    Join((IF prefix # <<>> THEN <<prefix>> ELSE <<>>)
         \o <<database>>
         \o (IF filename # <<>> THEN <<filename>> ELSE <<>>))

\* The characters outside A-Z a-z 0-9 - _ . ~ that occur in keys, and their
\* percent-encodings.  Every other token is a run of unreserved characters.
PercentCode(tok) ==
    CASE tok = "/" -> "%2F"
      [] tok = ":" -> "%3A"
      [] tok = "+" -> "%2B"
      [] tok = " " -> "%20"
      [] OTHER -> tok

PercentDecode(tok) ==
    CASE tok = "%2F" -> "/"
      [] tok = "%3A" -> ":"
      [] tok = "%2B" -> "+"
      [] tok = "%20" -> " "
      [] OTHER -> tok

\* s3client.uriEncode
uriEncode(input, encodeSlash) ==
    [i \in 1..Len(input) |->
        IF input[i] = "/" /\ ~encodeSlash THEN "/" ELSE PercentCode(input[i])]

\* url.PathUnescape
PathUnescape(input) == [i \in 1..Len(input) |-> PercentDecode(input[i])]

\* url.URL.EscapedPath of a URL without RawPath: Go's path escaping leaves
\* the reserved characters $ & + , / : ; = @ as they are.
EscapedPath(path) ==
    [i \in 1..Len(path) |-> IF path[i] \in {"/", ":", "+"} THEN path[i] ELSE PercentCode(path[i])]

\* url.QueryEscape: a space becomes "+".
QueryEscape(value) ==
    [i \in 1..Len(value) |-> IF value[i] = " " THEN "+" ELSE PercentCode(value[i])]

\* strings.ReplaceAll of one character
ReplaceAll(value, old, new) == [i \in 1..Len(value) |-> IF value[i] = old THEN new ELSE value[i]]

\* storage.escapeQuery
escapeQuery(value) ==
    ReplaceAll(ReplaceAll(ReplaceAll(QueryEscape(value), "+", "%20"), "*", "%2A"), "%7E", "~")

\* s3client.buildCanonicalPath
buildCanonicalPath(forcePathStyle, bucketName, key) ==
    <<"/">>
    \o (IF forcePathStyle
        THEN uriEncode(<<bucketName>>, FALSE) \o (IF key # <<>> THEN <<"/">> ELSE <<>>)
        ELSE <<>>)
    \o (IF key # <<>>
        THEN LET segments == Split(key, "/")
             IN  JoinWith([i \in 1..Len(segments) |-> uriEncode(segments[i], FALSE)], "/")
        ELSE <<>>)

\* s3client.hostWithBucket
Client_hostWithBucket(bucketName, endpointHost) ==
    IF ":" \in Range(endpointHost)
    THEN LET parts == Split(endpointHost, ":")
         IN  <<bucketName, ".">> \o parts[1] \o <<":">> \o parts[2]
    ELSE <<bucketName, ".">> \o endpointHost

\* storage.hostWithBucket
hostWithBucket(baseHost, bucketName) ==
    IF HasPrefix(ToLower(baseHost), ToLower(<<bucketName, ".">>))
    THEN baseHost
    ELSE <<bucketName, ".">> \o baseHost

\* The query of a request: its parameters sorted by key, as url.Values
\* yields them to sort.Strings.  ListObjectsV2 and S3.Cleanup set list-type
\* and prefix; the other operations have no query.
ListQuery(prefix) ==
    << [key |-> <<"list-type">>, value |-> <<"2">>] >>
    \o (IF prefix # <<>> THEN << [key |-> <<"prefix">>, value |-> prefix] >> ELSE <<>>)

\* s3client.canonicalQueryString
canonicalQueryString(query) ==
    JoinWith([i \in 1..Len(query) |->
                 uriEncode(query[i].key, TRUE) \o <<"=">> \o uriEncode(query[i].value, TRUE)],
             "&")

\* storage.canonicalQuery
canonicalQuery(query) ==
    JoinWith([i \in 1..Len(query) |->
                 escapeQuery(query[i].key) \o <<"=">> \o escapeQuery(query[i].value)],
             "&")

\* url.Values.Encode
Encode(query) ==
    JoinWith([i \in 1..Len(query) |->
                 QueryEscape(query[i].key) \o <<"=">> \o QueryEscape(query[i].value)],
             "&")

\* Client.newRequest: the URL of the request
Client_URL(c, bucketName, key, query) ==
    LET canonicalKey == TrimPrefix(key, <<"/">>)
        canonicalURI == buildCanonicalPath(c.cfg.ForcePathStyle, bucketName, canonicalKey)
    IN  [Host |-> IF c.cfg.ForcePathStyle THEN c.Host
                  ELSE Client_hostWithBucket(bucketName, c.Host),
         Path |-> PathUnescape(canonicalURI),
         RawPath |-> canonicalURI,
         RawQuery |-> canonicalQueryString(query)]

\* S3.buildURL; the request goes out with the escaped path of this URL
buildURL(c, key, query) ==
    LET basePath == Trim(c.Path, "/")
        pathSegments ==
            (IF basePath # <<>> THEN <<basePath>> ELSE <<>>)
            \o (IF c.cfg.ForcePathStyle THEN << <<c.cfg.Bucket>> >> ELSE <<>>)
            \o (IF key # <<>> THEN <<key>> ELSE <<>>)
        urlPath == IF pathSegments # <<>>
                   THEN <<"/">> \o TrimLeft(Join(pathSegments), "/")
                   ELSE <<"/">>
    IN  [Host |-> IF c.cfg.ForcePathStyle THEN c.Host
                  ELSE hostWithBucket(c.Host, c.cfg.Bucket),
         Path |-> urlPath,
         RawPath |-> EscapedPath(urlPath),
         RawQuery |-> Encode(query)]

----------------------------------------------------------------------------
(* The object-store client: signatures *)

\* SHA-256, HMAC-SHA256 and the hexadecimal encoding are one-to-one on the
\* inputs of the model: a digest is the record of what was digested, so two
\* digests are equal exactly if their inputs are.
hmacSHA256(key, data) == [hmac |-> data, key |-> key]

emptyHash == EncodeToString(sha256Sum(<<>>))

\* The credentials of the configuration.
AccessKeyID == "AKID"
SecretAccessKey == "secret"

\* Client.signingKey, storage.deriveSigningKey
deriveSigningKey(secret, date, region, service) ==
    LET kDate == hmacSHA256(<<"AWS4", secret>>, date)
        kRegion == hmacSHA256(kDate, region)
        kService == hmacSHA256(kRegion, service)
    IN  hmacSHA256(kService, "aws4_request")

\* time.Now().UTC() in the formats 20060102T150405Z and 20060102
amzDateOf(day) == <<day, "T", "150405Z">>
dateStampOf(day) == <<day>>

\* The lines host, x-amz-content-sha256, x-amz-date in the order of their
\* names (s3client.buildCanonicalHeaders; storage.canonicalizeHeaders over
\* the headers S3.do has set, without session token and storage class).
buildCanonicalHeaders(host, payloadHash, amzDate) ==
    << [name |-> "host", value |-> ToLower(host)],
       [name |-> "x-amz-content-sha256", value |-> payloadHash],
       [name |-> "x-amz-date", value |-> amzDate] >>

signedHeaders == <<"host", ";", "x-amz-content-sha256", ";", "x-amz-date">>

\* The Authorization header from the canonical URI and query: the canonical
\* request, the string to sign, the signature (Client.newRequest, S3.do).
authorization(region, method, canonicalURI, canonicalQueryStr, host, payloadHash, day) ==
    LET amzDate == amzDateOf(day)
        dateStamp == dateStampOf(day)
        credentialScope == dateStamp \o <<"/", region, "/", "s3", "/", "aws4_request">>
        canonicalRequest ==
            [method |-> method, uri |-> canonicalURI, query |-> canonicalQueryStr,
             headers |-> buildCanonicalHeaders(host, payloadHash, amzDate),
             signed |-> signedHeaders, payload |-> payloadHash]
        stringToSign ==
            [algorithm |-> "AWS4-HMAC-SHA256", date |-> amzDate, scope |-> credentialScope,
             hashed |-> EncodeToString(sha256Sum(canonicalRequest))]
        signingKey == deriveSigningKey(SecretAccessKey, dateStamp, region, "s3")
    IN  [algorithm |-> "AWS4-HMAC-SHA256",
         Credential |-> <<AccessKeyID, "/">> \o credentialScope,
         SignedHeaders |-> signedHeaders,
         Signature |-> EncodeToString(hmacSHA256(signingKey, stringToSign))]

\* storage.canonicalURI
canonicalURI(escapedPath) ==
    IF escapedPath = <<>> THEN <<"/">>
    ELSE IF Head(escapedPath) # "/" THEN <<"/">> \o escapedPath
    ELSE escapedPath

----------------------------------------------------------------------------
(* The object-store client: one operation *)

MaxBody == 5000

\* io.LimitReader(resp.Body, 4096) of S3.do
messageLimit == 4096

StatusSwitchingProtocols == 101
StatusOK == 200
StatusNoContent == 204
StatusMovedPermanently == 301
StatusForbidden == 403

\* The statuses net/http hands to the caller, and the sizes of the body.
Statuses ==
    {StatusSwitchingProtocols, StatusOK, StatusNoContent, StatusMovedPermanently,
     StatusForbidden, StatusInternalServerError}

BodyLengths == {0, messageLimit, MaxBody}

\* The file names of Dump, file_<type>_<time.RFC3339>.dump, in UTC and in a
\* zone east of it, and a name without a colon.
Filenames ==
    { <<"file", "_", "daily", "_", "2024-01-02T15", ":", "04", ":", "05Z", ".dump">>,
      <<"file", "_", "daily", "_", "2024-01-02T15", ":", "04", ":", "05", "+", "01", ":", "00", ".dump">>,
      BackupName("manual") }

Days == {"20240102", "20240103"}

\* The databases of the configuration.
Databases == {Database, OtherDatabase}

\* Put, Get, Delete and List of s3client.Client; Store, deleteObject and the
\* listing of Cleanup of storage.S3.
Ops(impl) == IF impl = "Client" THEN {"Put", "Get", "Delete", "List"} ELSE {"Put", "Delete", "List"}

methodOf(op) ==
    CASE op = "Put" -> "PUT"
      [] op = "Delete" -> "DELETE"
      [] OTHER -> "GET"

\* The constructor has run on the configuration of the environment.
InitRequest ==
    /\ store = <<>>
    /\ clock = ClockStart
    /\ pass = NoPass
    /\ job = NoJob
    /\ list = NoList
    /\ exec = NoExec
    /\ NoTransfer
    /\ \E impl \in {"Client", "S3"}, cfg \in Configs :
         /\ variant = (IF impl = "Client" THEN "s3Provider" ELSE "S3")
         /\ client = (IF impl = "Client" THEN NewS3Provider(cfg) ELSE NewS3(cfg))
    /\ request = NoRequest
    /\ reply = NoReply

\* The request of one operation on (database, filename): Client.newRequest
\* for the s3client, S3.buildRequest and the signing part of S3.do for the
\* storage backend.
newRequest ==
    /\ client.err = "nil"
    /\ request.op = "none"
    /\ \E op \in Ops(client.impl), database \in Databases, filename \in Filenames,
          day \in Days :
         LET isClient == client.impl = "Client"
             key == IF op = "List" THEN <<>>
                    ELSE IF isClient
                    THEN s3Provider_objectKey(client.prefix, database, filename)
                    ELSE S3_objectKeyOf(client.prefix, database, filename)
             query == IF op # "List" THEN <<>>
                      ELSE IF isClient
                      THEN ListQuery(s3Provider_databasePrefix(client.prefix, database))
                      ELSE ListQuery(S3_objectKeyOf(client.prefix, database, <<>>))
             url == IF isClient THEN Client_URL(client, client.cfg.Bucket, key, query)
                    ELSE buildURL(client, key, query)
             payloadHash == IF op = "Put" THEN hashReader(ContentA) ELSE emptyHash
         IN  request' =
               [op |-> op, method |-> methodOf(op), database |-> database,
                filename |-> IF op = "List" THEN <<>> ELSE filename,
                key |-> key, query |-> query,
                day |-> day, payloadHash |-> payloadHash,
                Host |-> url.Host, Path |-> url.Path, RawPath |-> url.RawPath,
                RawQuery |-> url.RawQuery,
                Authorization |->
                    IF isClient
                    THEN authorization(client.cfg.Region, methodOf(op), url.RawPath,
                                       canonicalQueryString(query), url.Host, payloadHash, day)
                    ELSE authorization(client.cfg.Region, methodOf(op), canonicalURI(url.RawPath),
                                       canonicalQuery(query), url.Host, payloadHash, day)]
    /\ UNCHANGED <<job, variant, store, clock, pass, list, exec, transfer, client, reply>>

\* httpClient.Do fails, or a response with a status and a body arrives.
Responses ==
    {[status |-> 0, body |-> 0]} \cup [status : Statuses, body : BodyLengths]

\* PutObject, GetObject, DeleteObject, ListObjectsV2 after newRequest: the
\* error of Do, httpError for a status from 400 on, success otherwise.
\* httpError reads the whole body into the message.
Client_Do ==
    /\ client.impl = "Client"
    /\ request.op # "none"
    /\ reply.err = "none"
    /\ \E r \in Responses :
         reply' = IF r.status = 0
                  THEN [status |-> 0, body |-> 0, err |-> "transport", code |-> 0, excerpt |-> 0]
                  ELSE IF httpFailed(r.status)
                  THEN [status |-> r.status, body |-> r.body, err |-> "status",
                        code |-> r.status, excerpt |-> r.body]
                  ELSE [status |-> r.status, body |-> r.body, err |-> "nil",
                        code |-> 0, excerpt |-> 0]
    /\ UNCHANGED <<job, variant, store, clock, pass, list, exec, transfer, client, request>>

\* S3.do after signing, as S3.execute returns it with MaxRetries = 0: the
\* error of Do, the response for 200..299, a requestError with the status and
\* at most messageLimit bytes of the body otherwise.
S3_do ==
    /\ client.impl = "S3"
    /\ request.op # "none"
    /\ reply.err = "none"
    /\ \E r \in Responses :
         reply' = IF r.status = 0
                  THEN [status |-> 0, body |-> 0, err |-> "transport", code |-> 0, excerpt |-> 0]
                  ELSE IF r.status >= StatusOK /\ r.status < 300
                  THEN [status |-> r.status, body |-> r.body, err |-> "nil",
                        code |-> 0, excerpt |-> 0]
                  ELSE [status |-> r.status, body |-> r.body, err |-> "status",
                        code |-> r.status,
                        excerpt |-> IF r.body < messageLimit THEN r.body ELSE messageLimit]
    /\ UNCHANGED <<job, variant, store, clock, pass, list, exec, transfer, client, request>>

NextRequest == newRequest \/ Client_Do \/ S3_do

SpecRequest == InitRequest /\ [][NextRequest]_vars

----------------------------------------------------------------------------
(* The commands of the controller and a Dump run *)

\* The bytes pg_dump writes for a database.
DumpContent == <<"d1", "d2">>

\* The Dump functions: utils/dump.go (a Provider and the shared copy),
\* utils/init.go:63 (the Storage destinations and a shared Storage) and
\* utils/init.go:162 (a Provider).
DumpImpls == {"dump.go:15", "init.go:63", "init.go:162"}

UsesStorages(impl) == impl = "init.go:63"

\* Values of BACKUP_TARGET.
TargetValues ==
    { <<>>, <<"local">>, <<"s3">>, <<"local", ",", "s3">>,
      <<"S3", ",", " ", "local">>, <<"tape">> }

\* parseTargets: split at commas, lower case, trimmed, the empty parts dropped.
parseTargets(value) ==
    IF value = <<>> THEN <<>>
    ELSE LET parts   == Split(value, ",")
             trimmed == [n \in 1..Len(parts) |-> Trim(ToLower(parts[n]), " ")]
         IN  SelectSeq(trimmed, LAMBDA part : part # <<>>)

\* buildStorages: the destinations in the order of the targets, and the local
\* storage if it is one of them.  An unknown target is logged and skipped.
buildStorages(value) ==
    LET parsed  == parseTargets(value)
        targets == IF Len(parsed) = 0 THEN << <<"local">> >> ELSE parsed
        known   == SelectSeq(targets, LAMBDA t : t \in {<<"local">>, <<"s3">>})
    IN  [storages |-> [n \in 1..Len(known) |->
                          IF known[n] = <<"local">> THEN "Local" ELSE "S3"],
         localEnabled |-> \E n \in 1..Len(targets) : targets[n] = <<"local">>]

\* The databases of one Dump call: the one named, or DATABASE_LIST for --all.
DatabaseLists == { <<Database>>, <<OtherDatabase, Database>> }

\* The artifacts a destination holds before the run: none, or an expired
\* weekly artifact of Database.
OldArtifacts ==
    { <<>>,
      << [Key |-> objectKey(Database, BackupName("weekly")), Mod |-> ClockStart - 31,
          Data |-> Previous] >> }

\* How many calls of one run may fail (creating the temporary file, pg_dump,
\* the shared copy, Save, Cleanup).
MaxFaults == 2

\* main up to the dispatch of the command: the destinations are built.  The
\* file.dump of each shared directory is absent or left from an earlier run.
InitDump ==
    /\ NoTransfer
    /\ NoWire
    /\ variant = "Local"
    /\ store = <<>>
    /\ clock = ClockStart
    /\ pass = NoPass
    /\ list = NoList
    /\ exec = NoExec
    /\ \E impl \in DumpImpls, value \in TargetValues, p \in {"localProvider", "s3Provider"},
          old \in OldArtifacts, shared \in {Absent, File(Previous)} :
         LET built    == buildStorages(value)
             storages == IF UsesStorages(impl) THEN built.storages ELSE <<p>>
         IN  job = [NoJob EXCEPT !.pc = "main", !.impl = impl, !.storages = storages,
                                 !.localEnabled = UsesStorages(impl) /\ built.localEnabled,
                                 !.shared = [d \in Databases |-> shared],
                                 !.held = [n \in 1..Len(storages) |-> old]]

\* The item is finished: the loop goes to the next database or ends.
Advance(j) ==
    IF j.i < Len(j.list) THEN [j EXCEPT !.i = @ + 1, !.k = 1, !.pc = "temp"]
    ELSE [j EXCEPT !.pc = "done"]

\* A call may fail while the run has faults left.
Outcome(j) == IF j.faults < MaxFaults THEN BOOLEAN ELSE {TRUE}

Fault(j, ok) == IF ok THEN j ELSE [j EXCEPT !.faults = @ + 1]

\* The artifacts of a destination with o put under its key, in byte order.
Put(st, o) ==
    SelectSeq(st, LAMBDA x : KeyIndex(x.Key) < KeyIndex(o.Key))
    \o <<o>>
    \o SelectSeq(st, LAMBDA x : KeyIndex(x.Key) > KeyIndex(o.Key))

\* A Store loop that ends at the first destination that fails.
nextDestination_stopOnError(k, n, failed) == IF failed THEN n + 1 ELSE k + 1

\* for _, destination := range storages: the error of Store is logged and the
\* loop goes on.
nextDestination(k, n, failed) == k + 1

\* A Cleanup that is handed an instant a year ahead.
cleanupNow_nextYear(t) == t + 366

\* The instant handed to Cleanup: time.Now().
cleanupNow(t) == t

\* The command dump: Dump(database, "manual", ...).  Without a destination
\* the Dump of init.go:63 returns at once.
DumpCommand ==
    /\ job.pc = "main"
    /\ \E databases \in DatabaseLists, shared \in BOOLEAN :
         job' = IF job.storages = <<>>
                THEN [job EXCEPT !.pc = "done", !.command = "dump"]
                ELSE [job EXCEPT !.pc = "temp", !.command = "dump", !.list = databases,
                                 !.backupType = "manual",
                                 !.withCopying = shared /\ job.impl # "init.go:162",
                                 !.i = 1, !.k = 1,
                                 !.temp = [n \in 1..Len(databases) |-> Absent]]
    /\ UNCHANGED <<wire, variant, store, clock, pass, list, exec, transfer>>

\* os.CreateTemp, os.MkdirTemp: on an error the item is skipped.  job.dumped,
\* stored, unsaved, copied and cleaned tell what was done for the item.
CreateTemp ==
    /\ job.pc = "temp"
    /\ \E created \in Outcome(job) :
         LET fresh == [job EXCEPT !.dumped = FALSE, !.stored = {}, !.unsaved = {},
                                  !.copied = "", !.cleaned = {}]
         IN  job' = IF created
                    THEN [fresh EXCEPT !.pc = "pg_dump", !.temp[job.i] = File(<<>>)]
                    ELSE Advance(Fault(fresh, FALSE))
    /\ UNCHANGED <<wire, variant, store, clock, pass, list, exec, transfer>>

\* pg_dump -f tempFilePath: on an error the temporary file (directory) is
\* removed and the item is skipped.
RunDump ==
    /\ job.pc = "pg_dump"
    /\ \E dumped \in Outcome(job) :
         job' = IF dumped
                THEN [job EXCEPT !.temp[job.i] = File(DumpContent), !.dumped = TRUE,
                                 !.pc = IF job.impl = "dump.go:15" /\ job.withCopying
                                        THEN "copy" ELSE "save"]
                ELSE Advance(Fault([job EXCEPT !.temp[job.i] = Absent], FALSE))
    /\ UNCHANGED <<wire, variant, store, clock, pass, list, exec, transfer>>

\* A copy that stops after the first part of the file.
Copy_truncated(data) == SubSeq(data, 1, 1)

\* io.Copy(output, input) without error: the whole of the source.
Copy(data) == data

\* copyToShared(tempFilePath, sharedPath/item/file.dump) of dump.go, and
\* shared.Store(item, "file.dump", dumpPath) of init.go:63: MkdirAll, Open,
\* Create (which truncates), io.Copy, Sync (Close).  Open fails if the source
\* is gone.  The error is printed and the run goes on.
CopyToShared ==
    /\ job.pc = "copy"
    /\ \E outcome \in (IF job.temp[job.i].exists THEN {"nil"} ELSE {"open"})
                     \cup (IF job.faults < MaxFaults
                           THEN {"create", "copy", "sync"} ELSE {}) :
         LET source == job.temp[job.i]
             item   == job.list[job.i]
             file   == CASE outcome \in {"open", "create"} -> job.shared[item]
                         [] outcome = "copy" -> File(SubSeq(source.data, 1, 1))
                         [] OTHER -> File(Copy(source.data))
             after  == Fault([job EXCEPT !.shared[item] = file, !.copied = outcome],
                             outcome \in {"nil", "open"})
         IN  job' = IF UsesStorages(job.impl)
                    THEN [after EXCEPT !.pc = "cleanup", !.k = 1, !.now = cleanupNow(clock)]
                    ELSE [after EXCEPT !.pc = "save"]
    /\ UNCHANGED <<wire, variant, store, clock, pass, list, exec, transfer>>

\* provider.Save(item, filename, tempFilePath) and, after a Save without error,
\* os.Remove(tempFilePath); destination.Store(item, filename, dumpPath) for the
\* next destination.  localProvider.Save moves the file; a failed copy of a
\* local backend may leave a truncated file.
SaveDump ==
    /\ job.pc = "save"
    /\ \E saved \in Outcome(job), truncated \in BOOLEAN :
         LET v      == job.storages[job.k]
             n      == Len(job.storages)
             source == job.temp[job.i]
             key    == objectKey(job.list[job.i], BackupName(job.backupType))
             held   == IF saved
                       THEN Put(job.held[job.k], [Key |-> key, Mod |-> clock, Data |-> source.data])
                       ELSE IF truncated /\ v \in {"localProvider", "Local"}
                       THEN Put(job.held[job.k],
                                [Key |-> key, Mod |-> clock, Data |-> SubSeq(source.data, 1, 1)])
                       ELSE job.held[job.k]
             temp   == IF saved /\ ~UsesStorages(job.impl) THEN Absent ELSE source
             next   == nextDestination(job.k, n, ~saved)
             after  == Fault([job EXCEPT
                                 !.held[job.k] = held, !.temp[job.i] = temp,
                                 !.stored = @ \cup {job.k},
                                 !.unsaved = IF saved THEN @ ELSE @ \cup {job.k},
                                 !.saved = IF saved THEN @ \cup {[k |-> job.k, Key |-> key]}
                                           ELSE @],
                             saved)
         IN  job' = IF next <= n THEN [after EXCEPT !.k = next]
                    ELSE IF UsesStorages(job.impl) /\ job.withCopying
                    THEN [after EXCEPT !.pc = "copy"]
                    ELSE [after EXCEPT !.pc = "cleanup", !.k = 1, !.now = cleanupNow(clock)]
    /\ UNCHANGED <<wire, variant, store, clock, pass, list, exec, transfer>>

\* storage.Cleanup(provider, item, time.Now()); destination.Cleanup(item, now)
\* for the next destination.  Every artifact the pass would delete is removed
\* unless the listing or a delete fails; job.gone holds what was removed.
CleanupDump ==
    /\ job.pc = "cleanup"
    /\ \E files \in {Listing(job.storages[job.k], job.held[job.k], job.list[job.i], MaxPage)} :
       LET v        == job.storages[job.k]
           database == job.list[job.i]
           now      == IF UsesStorages(job.impl) THEN job.now ELSE cleanupNow(clock)
           doomed   == {DeleteKey(v, files[m], database) :
                           m \in {x \in 1..Len(files) : Deletes(v, files[x], database, now)}}
       IN  \E ok \in Outcome(job), failed \in SUBSET doomed :
             LET gone  == IF ok THEN doomed ELSE doomed \ failed
                 after == Fault([job EXCEPT
                                    !.held[job.k] = SelectSeq(@, LAMBDA o : o.Key \notin gone),
                                    !.gone = @ \cup {[k |-> job.k, Key |-> key] : key \in gone},
                                    !.cleaned = @ \cup {job.k}],
                                ok)
             IN  job' = IF job.k < Len(job.storages) THEN [after EXCEPT !.k = @ + 1]
                        ELSE IF UsesStorages(job.impl) THEN [after EXCEPT !.pc = "remove"]
                        ELSE Advance(after)
    /\ UNCHANGED <<wire, variant, store, clock, pass, list, exec, transfer>>

\* os.RemoveAll(tempDir) at the end of the loop body of init.go:63.
RemoveTemp ==
    /\ job.pc = "remove"
    /\ job' = Advance([job EXCEPT !.temp[job.i] = Absent])
    /\ UNCHANGED <<wire, variant, store, clock, pass, list, exec, transfer>>

\* Time passes between the Save of an item and its Cleanup.
TickDump ==
    /\ job.pc = "cleanup"
    /\ job.k = 1
    /\ clock < ClockStart + ClockSpan
    /\ clock' = clock + 1
    /\ UNCHANGED <<job, wire, variant, store, pass, list, exec, transfer>>

\* List(database, local) and Restore(database, local, filename, databaseList):
\* with local = nil they log that local storage is disabled and return;
\* otherwise they read the directory, or run pg_restore on the file.
Unavailable(local) == IF local THEN "" ELSE "disabled"

\* list: List(database, localEnabled).
ListCommand ==
    /\ job.pc = "main"
    /\ UsesStorages(job.impl)
    /\ job' = [job EXCEPT !.pc = "done", !.command = "list",
                          !.reported = Unavailable(job.localEnabled),
                          !.ran = IF job.localEnabled THEN <<"ReadDir">> ELSE <<>>]
    /\ UNCHANGED <<wire, variant, store, clock, pass, list, exec, transfer>>

\* restore: Restore(database, localEnabled, filename, {}).
RestoreCommand ==
    /\ job.pc = "main"
    /\ UsesStorages(job.impl)
    /\ job' = [job EXCEPT !.pc = "done", !.command = "restore",
                          !.reported = Unavailable(job.localEnabled),
                          !.ran = IF job.localEnabled THEN <<"pg_restore">> ELSE <<>>]
    /\ UNCHANGED <<wire, variant, store, clock, pass, list, exec, transfer>>

\* restore-from-shared: Restore(database, sharedStorage, "file.dump",
\* databaseList), sharedStorage being storage.NewLocal(sharedPath), never nil.
RestoreFromSharedCommand ==
    /\ job.pc = "main"
    /\ UsesStorages(job.impl)
    /\ LET sharedStorage == TRUE IN
       job' = [job EXCEPT !.pc = "done", !.command = "restore-from-shared",
                          !.reported = Unavailable(sharedStorage),
                          !.ran = IF sharedStorage THEN <<"pg_restore">> ELSE <<>>]
    /\ UNCHANGED <<wire, variant, store, clock, pass, list, exec, transfer>>

NextDump ==
    \/ DumpCommand
    \/ CreateTemp
    \/ RunDump
    \/ CopyToShared
    \/ SaveDump
    \/ CleanupDump
    \/ RemoveTemp
    \/ TickDump
    \/ ListCommand
    \/ RestoreCommand
    \/ RestoreFromSharedCommand

SpecDump == InitDump /\ [][NextDump]_vars

----------------------------------------------------------------------------
(* Retention claims *)

Classes == {"daily", "weekly", "monthly", "manual"}

\* The age limit of a class, in days, as the retention rule states it.
ClaimLimit(class) ==
    CASE class = "daily" -> 7
      [] class = "weekly" -> 30
      [] class = "monthly" -> 365
      [] class = "manual" -> 365

\* The artifact's file name: its key without the database directory.
ArtifactName(o) == TrimPrefix(o.Key, Database \o <<"/">>)

\* The classification token: the second "_"-delimited field of the name.
HasClassToken(name) == Len(Split(name, "_")) >= 2
ClassToken(name) == Split(name, "_")[2]

\* file_<classification>_<timestamp>.dump
MatchesPattern(name) ==
    LET fields == Split(name, "_") IN
    /\ Len(fields) = 3
    /\ fields[1] = <<"file">>
    /\ Len(fields[2]) = 1
    /\ Len(fields[3]) >= 2 /\ HasSuffix(fields[3], <<".dump">>)

Stored(o) == o \in Range(store)
Submitted(o) == o.Key \in Range(pass.submitted)

\* The artifact is older than the limit of class at the time of the pass.
PastCutoff(o, class) == o.Mod < pass.now - ClaimLimit(class)

\* C1: after a Cleanup pass that met no error and in which every delete
\* succeeded, no artifact named file_<class>_<t>.dump of a class in {daily,
\* weekly, monthly, manual}, with a known last-modified instant strictly before
\* now minus the class limit, remains in the store.
C1_ExpiredAreGone ==
    (pass.pc = "done" /\ pass.err = "nil" /\ pass.failed = {}) =>
        \A i \in 1..Len(store) : \A class \in Classes :
            (ArtifactName(store[i]) = BackupName(class) /\ ~IsZero(store[i].Mod))
                => ~PastCutoff(store[i], class)

\* C2: a delete is only ever requested for, and only ever removes, an artifact
\* whose class token is a recognized class and whose last-modified instant is
\* strictly before now minus that class's limit; one modified exactly at the
\* cutoff, or later, stays.
C2_DeletedOnlyPastCutoff ==
    \A i \in 1..Len(pass.before) :
        LET o == pass.before[i] IN
        (Submitted(o) \/ ~Stored(o)) =>
            /\ HasClassToken(ArtifactName(o))
            /\ \E class \in Classes :
                  ClassToken(ArtifactName(o)) = <<class>> /\ PastCutoff(o, class)

\* A finished pass that removed an artifact and kept one modified exactly at its
\* class's cutoff.
C2_Witness ==
    /\ pass.pc = "done"
    /\ \E i \in 1..Len(pass.before) : ~Stored(pass.before[i])
    /\ \E i \in 1..Len(store) : \E class \in Classes :
          /\ ArtifactName(store[i]) = BackupName(class)
          /\ store[i].Mod = pass.now - ClaimLimit(class)

\* An artifact whose class token is none of the recognized classes.
Unrecognized(o) ==
    /\ HasClassToken(ArtifactName(o))
    /\ \A class \in Classes : ClassToken(ArtifactName(o)) # <<class>>

\* C3: in every pass, at any time and however often Cleanup is repeated, an
\* artifact whose class token is not a recognized class is never submitted for
\* deletion and is still stored.
C3_UnrecognizedNeverDeleted ==
    \A i \in 1..Len(pass.before) :
        Unrecognized(pass.before[i]) =>
            (Stored(pass.before[i]) /\ ~Submitted(pass.before[i]))

\* A finished pass that deleted something and left in place an artifact of an
\* unrecognized class that is more than 365 days old.
C3_Witness ==
    /\ pass.pc = "done"
    /\ pass.submitted # <<>>
    /\ \E i \in 1..Len(store) :
          /\ Unrecognized(store[i])
          /\ ~IsZero(store[i].Mod)
          /\ store[i].Mod < pass.now - 365

\* C4: a delete is only ever requested for an artifact whose name matches
\* file_<classification>_<timestamp>.dump.
C4_OnlyPatternNamesDeleted ==
    \A i \in 1..Len(pass.before) :
        Submitted(pass.before[i]) => MatchesPattern(ArtifactName(pass.before[i]))

\* C5: a pass whose listing met no error evaluates every listed artifact, also
\* when a delete failed on the way.
C5_FailedDeleteDoesNotStopPass ==
    (pass.pc = "done" /\ pass.err \notin {"list", "info"}) =>
        pass.evaluated = Len(pass.files)

\* C6: a finished pass in which a delete failed reports an error.
C6_FailedDeleteReported ==
    (pass.pc = "done" /\ pass.failed # {}) => pass.err # "nil"

----------------------------------------------------------------------------
(* Retry claims *)

\* The HTTP requests the operation has sent.
Sent == Len(exec.trace)

\* MaxRetries + 1, a negative MaxRetries counting as 0.
Budget == IF exec.MaxRetries < 0 THEN 1 ELSE exec.MaxRetries + 1

\* The attempt did not yield a 2xx response.
Failed(outcome) ==
    ~(outcome.kind = "response" /\ outcome.status \in 200..299)

\* The failures the retry rule names: a transport timeout or temporary network
\* error, 429, 408, or a 5xx status other than 501 and 505.
ClaimRetryable(outcome) ==
    \/ outcome.kind = "net" /\ (outcome.timeout \/ outcome.temporary)
    \/ /\ outcome.kind = "response"
       /\ \/ outcome.status \in {429, 408}
          \/ outcome.status \in 500..599 /\ outcome.status \notin {501, 505}

\* The error attempt i of the operation ended with.
ErrorOf(i) == do(exec.trace[i]).err @@ [attempt |-> i]

\* C7, as stated: a finished operation has made at least 1 and at most
\* MaxRetries+1 HTTP attempts (a negative MaxRetries counting as 0), and exactly
\* one with MaxRetries = 0.
C7_AttemptsWithinBudget ==
    exec.pc = "done" =>
        /\ Sent >= 1
        /\ Sent <= Budget
        /\ exec.MaxRetries = 0 => Sent = 1

\* C7, amended: an operation never makes more than MaxRetries+1 HTTP attempts
\* (a negative MaxRetries counting as 0); a finished one has made at least one,
\* unless preparing the first request failed (the body provider or
\* buildRequest), in which case it made none and returns that error; with
\* MaxRetries = 0 at most one attempt is made and the operation ends with it.
C7_AttemptsWithinBudgetOnceSent ==
    /\ Sent <= Budget
    /\ exec.pc = "done" =>
          \/ Sent >= 1
          \/ exec.err.kind \in {"provider", "buildRequest"} /\ exec.err.attempt = 1
    /\ (exec.MaxRetries = 0 /\ Sent = 1) => exec.pc = "done"

\* A finished operation with MaxRetries >= 1 that used its whole budget.
C7_Witness ==
    /\ exec.pc = "done"
    /\ exec.MaxRetries >= 1
    /\ Sent = exec.MaxRetries + 1

\* C8: an attempt is followed by another only if it failed with a failure the
\* retry rule names; after any other failure the operation is finished, returns
\* that attempt's error and no response, and has slept only between the earlier
\* attempts.
C8_RetryOnlyRetryable ==
    \A i \in 1..Sent :
        /\ i < Sent => (Failed(exec.trace[i]) /\ ClaimRetryable(exec.trace[i]))
        /\ (Failed(exec.trace[i]) /\ ~ClaimRetryable(exec.trace[i])) =>
              /\ i = Sent
              /\ exec.pc = "done"
              /\ exec.err = ErrorOf(i)
              /\ exec.resp.kind = "nil"
              /\ Len(exec.sleeps) = i - 1

\* An operation that ended on a failure the rule does not name, after a retry
\* and with attempts left in its budget.
C8_Witness ==
    /\ exec.pc = "done"
    /\ Sent >= 2
    /\ Sent < exec.attempts
    /\ Failed(exec.trace[Sent])
    /\ ~ClaimRetryable(exec.trace[Sent])
    /\ exec.err = ErrorOf(Sent)

\* C9: an attempt that succeeds is the last one and the operation returns its
\* response and no error; an operation whose every attempt of the budget failed
\* with a retryable failure returns the error of the final attempt and no
\* response; a finished operation never returns neither.
C9_ReturnsSuccessOrLastError ==
    /\ \A i \in 1..Sent :
          ~Failed(exec.trace[i]) =>
              /\ i = Sent
              /\ exec.pc = "done"
              /\ exec.resp = [kind |-> "response", status |-> exec.trace[i].status,
                              attempt |-> i]
              /\ exec.err.kind = "nil"
    /\ ( /\ exec.pc = "done"
         /\ Sent = Budget
         /\ \A i \in 1..Sent : Failed(exec.trace[i]) /\ ClaimRetryable(exec.trace[i]) )
       => /\ exec.err = ErrorOf(Sent)
          /\ exec.err.kind # "nil"
          /\ exec.resp.kind = "nil"
    /\ exec.pc = "done" => ~(exec.err.kind = "nil" /\ exec.resp.kind = "nil")

\* An operation that exhausted a budget of at least two attempts, its first and
\* its final failure being different retryable ones.
C9_Witness ==
    /\ exec.pc = "done"
    /\ Sent = Budget
    /\ Sent >= 2
    /\ \A i \in 1..Sent : Failed(exec.trace[i]) /\ ClaimRetryable(exec.trace[i])
    /\ exec.trace[1] # exec.trace[Sent]
    /\ exec.err = ErrorOf(Sent)

\* The artifact lies in the directory of the database under the configured
\* prefix.
UnderDatabase(o, database) == HasPrefix(o.Key, cfgPrefix \o database \o <<"/">>)

\* C26: a Cleanup of a database requests a delete only for, and removes only,
\* artifacts stored under that database's directory below the configured
\* prefix; the artifacts of a database whose name starts with the same
\* characters stay.
C26_CleanupStaysInsideTheDatabase ==
    \A i \in 1..Len(pass.before) :
        LET o == pass.before[i] IN
        (Submitted(o) \/ ~Stored(o)) => UnderDatabase(o, Database)

\* C27: an artifact whose last-modified instant is unknown (the zero instant)
\* is never submitted for deletion by a Cleanup pass and stays in the store.
C27_UnknownInstantIsKept ==
    \A i \in 1..Len(pass.before) :
        LET o == pass.before[i] IN
        IsZero(o.Mod) => (Stored(o) /\ ~Submitted(o))

\* A pass that went over the whole listing without error, deleted an artifact
\* and kept a daily artifact of unknown instant.
C27_Witness ==
    /\ pass.pc = "done"
    /\ pass.err = "nil"
    /\ pass.evaluated = Len(pass.before)
    /\ Len(pass.before) = 2
    /\ Len(pass.submitted) = 1
    /\ \E i \in 1..Len(store) :
          /\ IsZero(store[i].Mod)
          /\ ArtifactName(store[i]) = BackupName("daily")

\* The base delay of the backoff rule, in milliseconds.
ClaimBaseDelay == 500

\* C25: the operation has waited exactly after each attempt k that failed with
\* a retryable failure and was not the last of the budget, and that wait was k
\* times the base delay; there is no wait after the final attempt of the
\* budget, after a successful attempt or after a non-retryable failure.
C25_BackoffIsLinear ==
    /\ Len(exec.sleeps) <= Sent
    /\ \A k \in 1..Sent :
          k <= Len(exec.sleeps)
              <=> (k < Budget /\ Failed(exec.trace[k]) /\ ClaimRetryable(exec.trace[k]))
    /\ \A k \in 1..Len(exec.sleeps) : exec.sleeps[k] = k * ClaimBaseDelay

\* An operation that waited twice and ended without a third wait.
C25_Witness ==
    /\ exec.pc = "done"
    /\ Sent = 3
    /\ exec.sleeps = <<ClaimBaseDelay, 2 * ClaimBaseDelay>>

\* C28: every PUT attempt, the first and each retry, sends the body from
\* byte 0 of the artifact, declares the artifact's full size as content length
\* and signs the hash of the full content, wherever the transport stopped
\* reading in the attempt before; and each attempt of a PUT is such a request.
C28_EveryPutSendsTheWholeBody ==
    /\ \A i \in 1..Len(exec.put) :
          /\ exec.put[i].offset = 0
          /\ exec.put[i].ContentLength = Len(PutContent)
          /\ exec.put[i].payloadHash = [hex |-> [sha256 |-> PutContent]]
    /\ (exec.method = "PUT" /\ exec.upload \in Uploads) =>
          /\ exec.nput = Sent
          /\ Sent >= 1 => Len(exec.put) = 1

\* The third attempt of a PUT over the one body of PutObjectWithContext, the
\* second having stopped in the middle of the body.
C28_Witness ==
    /\ exec.upload = "PutObjectWithContext"
    /\ exec.nput = 3
    /\ Len(exec.put) = 1
    /\ exec.put[1].found = 1

----------------------------------------------------------------------------
(* Listing claims *)

\* The objects stored under Database.
StoredUnder == {o \in Range(store) : HasPrefix(o.Key, Database \o <<"/">>)}

\* C10: a List(database) that met no error returns exactly the artifacts stored
\* under the database, whatever the page size: as many entries as there are
\* objects, no name twice, every object's name, and no other name.
C10_ListReturnsExactlyTheObjects ==
    (list.pc = "done" /\ list.err = "nil") =>
        /\ Len(list.files) = Cardinality(StoredUnder)
        /\ \A i, j \in 1..Len(list.files) :
              list.files[i].Name = list.files[j].Name => i = j
        /\ {list.files[i].Name : i \in 1..Len(list.files)}
              = {ArtifactName(o) : o \in StoredUnder}

\* A finished List over more objects than fit a page, next to objects of
\* another database.
C10_Witness ==
    /\ list.pc = "done"
    /\ list.err = "nil"
    /\ list.pageSize < Cardinality(StoredUnder)
    /\ Cardinality(StoredUnder) < Len(store)
    /\ Len(list.files) = Cardinality(StoredUnder)

----------------------------------------------------------------------------
(* Save and Fetch claims *)

\* The artifact under the final name: the file of the local backends, the
\* object of the object store.
Artifact == IF variant = "s3Provider" THEN bucket ELSE disk.files["dest"]

\* Save call w returned without an error and the other Save was never called.
SavedAlone(w) ==
    /\ writer[w].pc = "done"
    /\ writer[w].err = "nil"
    /\ \A v \in Writers \ {w} : writer[v].pc = "idle"

\* C11: after a Save that returned no error, with no other Save on the name, a
\* Fetch that returns no error yields a local file whose bytes are the content
\* the source had when Save was called.
C11_SaveFetchRoundTrip ==
    \A w \in Writers :
        (SavedAlone(w) /\ reader.pc = "fetched" /\ reader.calls = <<>>) =>
            /\ disk.files[reader.path].exists
            /\ disk.files[reader.path].data = writer[w].content

\* C12: after a Save that returned an error, with no other Save on the name,
\* the artifact under the final name is absent or complete: the previous
\* artifact or the whole new content, never a truncated file.
C12_FailedSaveLeavesNoPartialArtifact ==
    \A w \in Writers :
        ( /\ writer[w].pc = "done"
          /\ writer[w].err # "nil"
          /\ \A v \in Writers \ {w} : writer[v].pc = "idle" )
        => Artifact \in {Absent, File(Previous), File(writer[w].content)}

\* C13: after a Fetch that returned no error, no call of the release function
\* fails, the second included, and once it was called the temporary file of
\* the Fetch is gone.
C13_ReleaseTwiceIsSafe ==
    reader.pc = "fetched" =>
        /\ \A i \in 1..Len(reader.calls) : reader.calls[i] = "nil"
        /\ reader.calls # <<>> => ~disk.files["temp"].exists

\* C14: after a Fetch that returned an error, the caller can invoke the release
\* function it was handed: no call fails, and no temporary file of the Fetch
\* remains.
C14_ReleaseAfterFailedFetchIsSafe ==
    reader.pc = "failed" =>
        /\ \A i \in 1..Len(reader.calls) : reader.calls[i] = "nil"
        /\ ~disk.files["temp"].exists

\* C20: once two Save calls on the same name, run concurrently with different
\* contents, have both returned no error, the artifact is the complete content
\* of one of them.
C20_ConcurrentSavesLastWriteWins ==
    (\A w \in Writers : writer[w].pc = "done" /\ writer[w].err = "nil") =>
        Artifact \in {File(ContentA), File(ContentB)}

\* The source file of Save call w as it was when Save was called.
SourceIntact(w) == disk.files[sourcePath(w)] = File(writer[w].content)

\* C24: localProvider.Save.  After a Save that returned no error the source path
\* no longer exists and, no other Save having written the name, the destination
\* holds the complete content, by rename or by the copy fallback.  The source
\* is gone only once the Save has succeeded: during the fallback, and after a
\* failed copy or sync, it still exists with its content.
C24_LocalSaveMovesTheSource ==
    variant = "localProvider" =>
        \A w \in Writers :
            /\ (writer[w].pc = "done" /\ writer[w].err = "nil") =>
                    ~disk.files[sourcePath(w)].exists
            /\ SavedAlone(w) => Artifact = File(writer[w].content)
            /\ writer[w].pc \in {"open", "copy"} => SourceIntact(w)
            /\ (writer[w].pc = "done" /\ writer[w].err # "nil") => SourceIntact(w)

\* A Save across devices that took the copy fallback and succeeded.
C24_Witness ==
    /\ variant = "localProvider"
    /\ disk.crossDevice
    /\ \E w \in Writers :
          /\ SavedAlone(w)
          /\ writer[w].off = Len(writer[w].content)
          /\ writer[w].off > 0
          /\ ~disk.files[sourcePath(w)].exists
          /\ Artifact = File(writer[w].content)

----------------------------------------------------------------------------
(* Dump and command claims *)

Destinations == 1..Len(job.storages)

\* The loop of Dump has finished an item; job.dumped, stored, unsaved, copied
\* and cleaned describe that item.
ItemFinished ==
    /\ job.command = "dump"
    /\ \/ job.pc = "done" /\ job.i >= 1
       \/ job.pc = "temp" /\ job.i >= 2

FinishedItem == IF job.pc = "done" THEN job.i ELSE job.i - 1

\* The key of the artifact the run saves for the item.
NewKey(n) == objectKey(job.list[n], BackupName(job.backupType))

\* Destination k holds the complete dump of item n under the new name.
HoldsDump(k, n) ==
    \E m \in 1..Len(job.held[k]) :
        job.held[k][m].Key = NewKey(n) /\ job.held[k][m].Data = DumpContent

\* C21: with the destinations built from BACKUP_TARGET, for a database whose
\* pg_dump succeeded Store is called on every destination, whether or not an
\* earlier Store failed, and every destination whose Store returned no error
\* holds the dump; Cleanup is called on every destination, and on none before
\* Store was called on all.
C21_EveryDestinationIsServed ==
    UsesStorages(job.impl) =>
        /\ (ItemFinished /\ job.dumped) =>
              /\ job.stored = Destinations
              /\ job.cleaned = Destinations
              /\ \A k \in Destinations \ job.unsaved : HoldsDump(k, FinishedItem)
        /\ job.cleaned # {} => job.stored = Destinations

\* A run on the local destination and s3 whose first Store failed: the second
\* destination holds the dump and both were cleaned.
C21_Witness ==
    /\ UsesStorages(job.impl)
    /\ job.storages = <<"Local", "S3">>
    /\ ItemFinished
    /\ job.dumped
    /\ job.unsaved = {1}
    /\ job.stored = {1, 2}
    /\ job.cleaned = {1, 2}
    /\ HoldsDump(2, FinishedItem)

\* The file.dump of the shared directory of the finished item.
SharedCopy == job.shared[job.list[FinishedItem]]

C23_DisabledWithoutLocal ==
    (job.command \in {"list", "restore", "restore-from-shared"} /\ ~job.localEnabled) =>
        /\ job.reported = "disabled"
        /\ job.ran = <<>>

\* C29: once Dump has finished a database, the temporary file (directory) it
\* created for it no longer exists.
C29_NoTemporaryFileIsLeft ==
    job.command = "dump" =>
        \A n \in 1..Len(job.temp) :
            (n < job.i \/ job.pc = "done") => ~job.temp[n].exists

\* C30: Cleanup is called on a destination only after Save was called on it
\* for the item; for a database whose pg_dump succeeded it is called on every
\* destination, also when the Save failed; and no artifact the run saved is
\* removed by a Cleanup of the run: the destination still holds it, complete.
C30_CleanupFollowsSaveAndKeepsIt ==
    /\ job.cleaned \subseteq job.stored
    /\ (ItemFinished /\ job.dumped) => job.cleaned = Destinations
    /\ job.saved \cap job.gone = {}
    /\ \A s \in job.saved :
          \E m \in 1..Len(job.held[s.k]) :
              job.held[s.k][m].Key = s.Key /\ job.held[s.k][m].Data = DumpContent

\* A run whose Cleanup, a day after the Save, removed the expired artifact and
\* kept the one just saved; and one whose Save failed and whose Cleanup ran.
C30_Witness ==
    /\ ItemFinished
    /\ job.dumped
    /\ job.cleaned = Destinations
    /\ clock > ClockStart
    /\ \E s \in job.saved : s.k = 1 /\ s.Key = NewKey(FinishedItem)
    /\ \E g \in job.gone : g.k = 1

----------------------------------------------------------------------------
(* Object-store client claims *)

\* The path a request has when the segments of the endpoint's base path come
\* first, then the bucket if it belongs into the path, then the key.
AddressedPath(withBucket) ==
    <<"/">> \o JoinWith(SelectSeq(<<Trim(client.Path, "/"),
                                     IF withBucket THEN <<client.cfg.Bucket>> ELSE <<>>,
                                     request.key>>,
                                   LAMBDA e : e # <<>>), "/")

\* C15: every request of a path-style client goes to the endpoint host with
\* the bucket as the first path segment after the endpoint's base path; every
\* request of a virtual-hosted client goes to the host <bucket>.<endpoint
\* host> and has no bucket segment in its path.
C15_AddressingFollowsTheMode ==
    request.op # "none" =>
        IF client.cfg.ForcePathStyle
        THEN request.Host = client.Host /\ request.Path = AddressedPath(TRUE)
        ELSE request.Host = <<client.cfg.Bucket, ".">> \o client.Host
             /\ request.Path = AddressedPath(FALSE)

\* C16: a response with a status outside 200..299 makes the operation return
\* an error that carries the status and at most messageLimit bytes of the
\* body.
C16_NonSuccessStatusIsAnError ==
    (reply.err # "none" /\ reply.status # 0
        /\ ~(reply.status >= StatusOK /\ reply.status < 300))
    => (reply.err = "status" /\ reply.code = reply.status /\ reply.excerpt <= messageLimit)

\* C17: with an empty endpoint (and a region, a bucket and credentials) the
\* constructor succeeds, and the endpoint is s3.amazonaws.com for us-east-1,
\* s3.<region>.amazonaws.com otherwise, with https if the TLS flag is set and
\* http if not.
C17_EmptyEndpointMeansAWS ==
    (client.impl # "none" /\ client.cfg.Endpoint = <<>>)
    => /\ client.err = "nil"
       /\ client.Host = (IF client.cfg.Region = "us-east-1"
                         THEN <<"s3", ".", "amazonaws", ".", "com">>
                         ELSE <<"s3", ".", client.cfg.Region, ".", "amazonaws", ".", "com">>)
       /\ client.Scheme = <<IF client.cfg.UseTLS THEN "https" ELSE "http">>

\* The key of an artifact as the client of this state computes it.
KeyOf(database, filename) ==
    IF client.impl = "Client"
    THEN s3Provider_objectKey(client.prefix, database, filename)
    ELSE S3_objectKeyOf(client.prefix, database, filename)

\* <prefix>/<database>/<filename>, prefix and database without their leading
\* and trailing slashes, no prefix segment for an empty prefix.
SlashJoined(prefix, database, filename) ==
    LET p == Trim(prefix, "/")
    IN  (IF p = <<>> THEN <<>> ELSE p \o <<"/">>) \o Trim(database, "/") \o <<"/">> \o filename

\* Database names as DATABASE_LIST may hold them: the configured ones, and
\* one of them written with slashes around it.
AnyDatabases == Databases \cup { <<"/">> \o Database \o <<"/">> }

OperatesOnKey == request.op \in {"Put", "Get", "Delete"}

\* C18: under the prefix of a client the key of every (database, filename)
\* pair is <prefix>/<database>/<filename>, prefix and database without their
\* leading and trailing slashes; and only the pair of a request, up to the
\* slashes around the database, has the key of that request.
C18_KeyIsSlashJoinedAndUnique ==
    OperatesOnKey =>
        \A d \in AnyDatabases, f \in Filenames :
            /\ KeyOf(d, f) = SlashJoined(client.cfg.Prefix, d, f)
            /\ KeyOf(d, f) = request.key
                   => (Trim(d, "/") = request.database /\ f = request.filename)

\* AWS Signature Version 4 as the contract of the signer describes it.
\* UriEncode leaves A-Z a-z 0-9 - _ . ~ as they are and percent-encodes every
\* other character; in the path "/" stays.
Reference_UriEncode(input, keepSlash) ==
    [i \in 1..Len(input) |->
        CASE input[i] = "/" -> IF keepSlash THEN "/" ELSE "%2F"
          [] input[i] = ":" -> "%3A"
          [] input[i] = "+" -> "%2B"
          [] input[i] = " " -> "%20"
          [] OTHER -> input[i]]

Reference_CanonicalURI(path) == IF path = <<>> THEN <<"/">> ELSE Reference_UriEncode(path, TRUE)

\* The parameters are sorted by key already.
Reference_CanonicalQuery(query) ==
    JoinWith([i \in 1..Len(query) |->
                 Reference_UriEncode(query[i].key, FALSE) \o <<"=">>
                 \o Reference_UriEncode(query[i].value, FALSE)],
             "&")

Reference_Scope(day, region) == <<day, "/", region, "/", "s3", "/", "aws4_request">>

Reference_SigningKey(secret, day, region) ==
    hmacSHA256(hmacSHA256(hmacSHA256(hmacSHA256(<<"AWS4", secret>>, <<day>>), region), "s3"),
               "aws4_request")

\* The Authorization header of the request (method, path, query, headers,
\* payload hash, timestamp, credentials); the signed headers are host,
\* x-amz-content-sha256 and x-amz-date, the host in lower case.
Reference_Authorization(method, path, query, host, payloadHash, day, region) ==
    LET timestamp == <<day, "T", "150405Z">>
        names == <<"host", ";", "x-amz-content-sha256", ";", "x-amz-date">>
        canonicalRequest ==
            [method |-> method,
             uri |-> Reference_CanonicalURI(path),
             query |-> Reference_CanonicalQuery(query),
             headers |-> << [name |-> "host", value |-> ToLower(host)],
                            [name |-> "x-amz-content-sha256", value |-> payloadHash],
                            [name |-> "x-amz-date", value |-> timestamp] >>,
             signed |-> names,
             payload |-> payloadHash]
        stringToSign ==
            [algorithm |-> "AWS4-HMAC-SHA256", date |-> timestamp,
             scope |-> Reference_Scope(day, region),
             hashed |-> EncodeToString(sha256Sum(canonicalRequest))]
    IN  [algorithm |-> "AWS4-HMAC-SHA256",
         Credential |-> <<AccessKeyID, "/">> \o Reference_Scope(day, region),
         SignedHeaders |-> names,
         Signature |-> EncodeToString(hmacSHA256(
                           Reference_SigningKey(SecretAccessKey, day, region), stringToSign))]

\* C19: the Authorization header of every request equals the Signature
\* Version 4 reference value for the method, path, query, headers, payload
\* hash, timestamp and credentials of that request.
C19_AuthorizationIsTheReference ==
    request.op # "none" =>
        request.Authorization =
            Reference_Authorization(request.method, request.Path, request.query, request.Host,
                                    request.payloadHash, request.day, client.cfg.Region)

====
